---- MODULE Spec2Model ----
(***************************************************************************)
(* A state-machine model of the process-wide runtime context of            *)
(* sunbines/log (src/common/global): the typed singleton registry of       *)
(* CephContext, the configuration observer registry ObserverMgr and the    *)
(* pid-file guard pidfh.  Each component has its own next-state relation   *)
(* and specification; the components share no state.                       *)
(***************************************************************************)
EXTENDS Integers, Sequences, FiniteSets, TLC

(***************************************************************************)
(* Bounds of the model.                                                    *)
(***************************************************************************)
NumThreads == 2
MaxInst == 2
NumWatchers == 2
MaxRegs == 2
NumProcs == 2
NumInodes == 2
MaxRef == 3

MaxWorkers == 2

Threads == 1..NumThreads
Names == {1, 2}
Types == {1, 2}
Watchers == 1..NumWatchers

VARIABLES
  associated_objs,
  associated_objs_drop_on_fork,
  associated_objs_lock,
  fork_watchers,
  pre_calls,
  spc,
  sarg,
  siter,
  sfault,
  nextInst,
  built,
  returned,
  forkSnap,
  post_calls,
  pre_seen,
  fork_watchers_lock,
  flast,
  fpc

VARIABLES
  observers,
  calls,
  diag,
  regs,
  olast,
  ofault,
  npc,
  nch,
  ncur,
  dlog

VARIABLES
  pfh,
  pf,
  ppc,
  kfd,
  pathIno,
  content,
  lockOwner,
  pret,
  pbuf,
  pr,
  pchk,
  pdead

VARIABLES
  nref,
  rheld,
  cpc,
  deleted,
  service_thread,
  service_thread_lock,
  created,
  safe_to_start_threads,
  heartbeat_interval,
  wpc,
  wlock,
  wnotified,
  reopen_logs,
  exit_thread,
  torn

VARIABLES
  aconf,
  aseen,
  aout,
  alast,
  afault,
  aret,
  debug_asok_assert_abort

avars == <<aconf, aseen, aout, alast, afault, aret, debug_asok_assert_abort>>

VARIABLES
  finished,
  init_by,
  no_daemon_actions,
  crypto_inits,
  log_started,
  log_starts,
  ilast

\* common_init_finish: cct->_finished, the thread inside the call, the init
\* flag CINIT_FLAG_NO_DAEMON_ACTIONS, and what the calls have done.
ivars == <<finished, init_by, no_daemon_actions, crypto_inits, log_started,
           log_starts, ilast>>

VARIABLES
  sthread,
  workers,
  wexit,
  wreopen,
  jby,
  jpc,
  jthread

\* The service threads of a context whose start_service_thread() is called
\* while its destructor runs join_service_thread(): the pointer
\* _service_thread (0 is NULL), the place of every worker in entry(), its
\* _exit_thread and its _reopen_logs, the thread that runs the destructor,
\* its place in join_service_thread() and its local pointer thread.
jvars == <<sthread, workers, wexit, wreopen, jby, jpc, jthread>>

cvars == <<nref, rheld, cpc, deleted, service_thread, service_thread_lock, created,
           safe_to_start_threads, heartbeat_interval, wpc, wlock, wnotified,
           reopen_logs, exit_thread, torn>>

\* The for_each_change calls in progress, one step of a thread at a time.
nvars == <<npc, nch, ncur, dlog>>

ovars == <<observers, calls, diag, regs, olast, ofault, nvars>>

pvars == <<pfh, pf, ppc, kfd, pathIno, content, lockOwner, pret, pbuf, pr, pchk,
           pdead>>

\* The record of the last fork notification and the watcher lock.
fvars == <<post_calls, pre_seen, fork_watchers_lock, flast, fpc>>

svars == <<associated_objs, associated_objs_drop_on_fork, associated_objs_lock,
           fork_watchers, pre_calls, spc, sarg, siter, sfault, nextInst,
           built, returned, forkSnap, fvars>>

vars == <<svars, ovars, pvars, cvars, avars, ivars, jvars>>

(***************************************************************************)
(* The singleton registry: CephContext::associated_objs.                   *)
(* A slot is a map element: its key (name, type), the type held by the     *)
(* immobile_any, and the identity of the constructed value.  dof is a      *)
(* history field: the drop_on_fork argument of the call that created it.   *)
(***************************************************************************)
End == [name |-> 0, type |-> 0, held |-> 0, inst |-> 0, dof |-> FALSE]

NoArg == [name |-> 0, type |-> 0, drop |-> FALSE]

Keys == Names \X Types

\* The comparator keyed by the name only: two types under one name collide.
associated_objs_cmp_NameOnly(ln, lt, rn, rt) ==
  ln < rn

associated_objs_cmp(ln, lt, rn, rt) ==
  (ln < rn) \/ (ln = rn /\ lt < rt)

\* Key equivalence of the ordered map: neither key is less than the other.
KeyEquiv(ln, lt, rn, rt) ==
  /\ ~associated_objs_cmp(ln, lt, rn, rt)
  /\ ~associated_objs_cmp(rn, rt, ln, lt)

\* A lookup that never finds the slot.
FindNever(objs, n, T) ==
  End

\* associated_objs.find(std::make_pair(name, type)); End is cend().
Find(objs, n, T) ==
  IF \E s \in objs : KeyEquiv(s.name, s.type, n, T)
    THEN CHOOSE s \in objs : KeyEquiv(s.name, s.type, n, T)
    ELSE End

\* associated_objs.emplace_hint(...): the element is inserted only when no
\* equivalent key is in the map.
EmplaceHint(objs, n, T, inst, d) ==
  IF \E s \in objs : KeyEquiv(s.name, s.type, n, T)
    THEN objs
    ELSE objs \cup {[name |-> n, type |-> T, held |-> T, inst |-> inst, dof |-> d]}

\* A lock that excludes nobody.
LockFreeAlways(l) ==
  TRUE

\* std::lock_guard lg(associated_objs_lock) can be taken.
LockFree(l) ==
  l = 0

\* ceph::any_cast<T&>(i->second) succeeds when the slot holds a T.
AnyCastOk(slot, T) ==
  slot.held = T

\* A prune that drops nothing.
DropsNothing(dropset, n) ==
  FALSE

\* associated_objs_drop_on_fork.count(i->first.first)
Drops(dropset, n) ==
  n \in dropset

SInit ==
  /\ associated_objs = {}
  /\ associated_objs_drop_on_fork = {}
  /\ associated_objs_lock = 0
  /\ fork_watchers = <<>>
  /\ pre_calls = <<>>
  /\ spc = [t \in Threads |-> "idle"]
  /\ sarg = [t \in Threads |-> NoArg]
  /\ siter = [t \in Threads |-> End]
  /\ sfault = "none"
  /\ nextInst = 1
  /\ built = [k \in Keys |-> 0]
  /\ returned = [k \in Keys |-> {}]
  /\ forkSnap = {}
  /\ post_calls = <<>>
  /\ pre_seen = {}
  /\ fork_watchers_lock = 0
  /\ flast = "none"
  /\ fpc = [t \in Threads |-> "idle"]

InFlight == {t \in Threads : spc[t] # "idle"}

\* A thread calls lookup_or_create_singleton_object<T>(n, d, ...).
LookupCall(t, n, T, d) ==
  /\ sfault = "none"
  /\ spc[t] = "idle"
  /\ nextInst + Cardinality(InFlight) <= MaxInst
  /\ spc' = [spc EXCEPT ![t] = "lock"]
  /\ sarg' = [sarg EXCEPT ![t] = [name |-> n, type |-> T, drop |-> d]]
  /\ pre_calls' = <<>>
  /\ post_calls' = <<>>
  /\ pre_seen' = {}
  /\ flast' = "none"
  /\ UNCHANGED <<associated_objs, associated_objs_drop_on_fork, associated_objs_lock,
                 fork_watchers, siter, sfault, nextInst, built, returned, forkSnap,
                 fork_watchers_lock, fpc>>
  /\ UNCHANGED <<ovars, pvars, cvars, avars, ivars, jvars>>

\* std::lock_guard lg(associated_objs_lock)
LookupLock(t) ==
  /\ sfault = "none"
  /\ spc[t] = "lock"
  /\ LockFree(associated_objs_lock)
  /\ associated_objs_lock' = t
  /\ spc' = [spc EXCEPT ![t] = "find"]
  /\ UNCHANGED <<associated_objs, associated_objs_drop_on_fork, fork_watchers,
                 pre_calls, sarg, siter, sfault, nextInst, built, returned,
                 forkSnap>>
  /\ UNCHANGED fvars
  /\ UNCHANGED <<ovars, pvars, cvars, avars, ivars, jvars>>

\* auto i = associated_objs.find(...); if (i == associated_objs.cend())
LookupFind(t) ==
  /\ sfault = "none"
  /\ spc[t] = "find"
  /\ LET i == Find(associated_objs, sarg[t].name, sarg[t].type)
     IN /\ siter' = [siter EXCEPT ![t] = i]
        /\ spc' = [spc EXCEPT ![t] = IF i = End THEN "emplace" ELSE "ret"]
  /\ UNCHANGED <<associated_objs, associated_objs_drop_on_fork, associated_objs_lock,
                 fork_watchers, pre_calls, sarg, sfault, nextInst, built,
                 returned, forkSnap>>
  /\ UNCHANGED fvars
  /\ UNCHANGED <<ovars, pvars, cvars, avars, ivars, jvars>>

\* The body of the if: the name joins the drop-set when drop_on_fork, and the
\* value is constructed in a new map node (emplace_hint builds the node before
\* it looks for the key).
LookupEmplace(t) ==
  /\ sfault = "none"
  /\ spc[t] = "emplace"
  /\ LET n == sarg[t].name
         T == sarg[t].type
         objs == EmplaceHint(associated_objs, n, T, nextInst, sarg[t].drop)
     IN /\ associated_objs' = objs
        /\ associated_objs_drop_on_fork' =
             IF sarg[t].drop THEN associated_objs_drop_on_fork \cup {n}
                             ELSE associated_objs_drop_on_fork
        /\ siter' = [siter EXCEPT ![t] = CHOOSE s \in objs : KeyEquiv(s.name, s.type, n, T)]
        /\ built' = [built EXCEPT ![<<n, T>>] = @ + 1]
  /\ nextInst' = nextInst + 1
  /\ spc' = [spc EXCEPT ![t] = "ret"]
  /\ UNCHANGED <<associated_objs_lock, fork_watchers, pre_calls, sarg, sfault,
                 returned, forkSnap>>
  /\ UNCHANGED fvars
  /\ UNCHANGED <<ovars, pvars, cvars, avars, ivars, jvars>>

\* return ceph::any_cast<T&>(i->second); the lock_guard releases the lock.
LookupReturn(t) ==
  /\ sfault = "none"
  /\ spc[t] = "ret"
  /\ LET n == sarg[t].name
         T == sarg[t].type
     IN IF AnyCastOk(siter[t], T)
          THEN /\ returned' = [returned EXCEPT ![<<n, T>>] = @ \cup {siter[t].inst}]
               /\ sfault' = sfault
          ELSE /\ sfault' = "bad_any_cast"
               /\ returned' = returned
  /\ associated_objs_lock' = IF associated_objs_lock = t THEN 0 ELSE associated_objs_lock
  /\ spc' = [spc EXCEPT ![t] = "idle"]
  /\ sarg' = [sarg EXCEPT ![t] = NoArg]
  /\ siter' = [siter EXCEPT ![t] = End]
  /\ UNCHANGED <<associated_objs, associated_objs_drop_on_fork, fork_watchers,
                 pre_calls, nextInst, built, forkSnap>>
  /\ UNCHANGED fvars
  /\ UNCHANGED <<ovars, pvars, cvars, avars, ivars, jvars>>

\* The registry as a hook would find it after the prune.
HookViewPruned(objs, dropset) ==
  {s \in objs : ~Drops(dropset, s.name)}

\* The registry as a watcher's handle_pre_fork finds it: the hooks run before
\* the prune.
HookView(objs, dropset) ==
  objs

RECURSIVE CallHooksReversed(_)
\* A loop over the watchers from the last to the first.
CallHooksReversed(ws) ==
  IF ws = <<>> THEN <<>> ELSE Append(CallHooksReversed(Tail(ws)), Head(ws))

RECURSIVE CallHooks(_)
\* for (auto &&t : _fork_watchers) t->handle_..._fork(): the hooks called,
\* in the order of the calls.
CallHooks(ws) ==
  IF ws = <<>> THEN <<>> ELSE <<Head(ws)>> \o CallHooks(Tail(ws))

\* register_fork_watcher(w): push_back under _fork_watchers_lock.  A watcher
\* registers itself once.
PushBack(w) ==
  /\ sfault = "none"
  /\ Len(fork_watchers) < NumWatchers
  /\ \A i \in 1..Len(fork_watchers) : fork_watchers[i] # w
  /\ fork_watchers' = Append(fork_watchers, w)
  /\ pre_calls' = <<>>
  /\ post_calls' = <<>>
  /\ pre_seen' = {}
  /\ flast' = "none"
  /\ UNCHANGED <<associated_objs, associated_objs_drop_on_fork, associated_objs_lock,
                 spc, sarg, siter, sfault, nextInst, built, returned, forkSnap>>
  /\ UNCHANGED <<ovars, pvars, cvars, avars, ivars, jvars>>

\* register_fork_watcher(w) as one step: the lock is taken and released in it.
RegisterForkWatcher(w) ==
  /\ fork_watchers_lock = 0
  /\ PushBack(w)
  /\ UNCHANGED <<fork_watchers_lock, fpc>>

\* notify_pre_fork(): under _fork_watchers_lock every watcher's
\* handle_pre_fork in list order, then the prune of the slots whose name is in
\* the drop-set and the clear of the drop-set.  The prune takes no lock: the
\* code assumes the process is idle at fork time, so the step is taken with no
\* lookup in flight.
PreFork ==
  /\ sfault = "none"
  /\ InFlight = {}
  /\ pre_calls' = CallHooks(fork_watchers)
  /\ pre_seen' = HookView(associated_objs, associated_objs_drop_on_fork)
  /\ post_calls' = <<>>
  /\ flast' = "pre"
  /\ forkSnap' = forkSnap \cup {s \in associated_objs : s.dof}
  /\ associated_objs' =
       {s \in associated_objs : ~Drops(associated_objs_drop_on_fork, s.name)}
  /\ associated_objs_drop_on_fork' = {}
  /\ built' = [k \in Keys |->
                 IF Drops(associated_objs_drop_on_fork, k[1]) THEN 0 ELSE built[k]]
  /\ returned' = [k \in Keys |-> {}]
  /\ UNCHANGED <<associated_objs_lock, fork_watchers, spc, sarg, siter, sfault,
                 nextInst>>
  /\ UNCHANGED <<ovars, pvars, cvars, avars, ivars, jvars>>

\* notify_pre_fork() as one step: the lock is taken and released in it.
NotifyPreFork ==
  /\ fork_watchers_lock = 0
  /\ PreFork
  /\ UNCHANGED <<fork_watchers_lock, fpc>>

\* notify_post_fork(): ceph::spin_unlock(&_fork_watchers_lock), then every
\* watcher's handle_post_fork in list order.  As the fork itself, it is taken
\* with no lookup in flight.
NotifyPostFork ==
  /\ sfault = "none"
  /\ InFlight = {}
  /\ fork_watchers_lock' = 0
  /\ post_calls' = CallHooks(fork_watchers)
  /\ flast' = "post"
  /\ UNCHANGED <<associated_objs, associated_objs_drop_on_fork, associated_objs_lock,
                 fork_watchers, pre_calls, pre_seen, spc, sarg, siter, sfault, nextInst,
                 built, returned, forkSnap, fpc>>
  /\ UNCHANGED <<ovars, pvars, cvars, avars, ivars, jvars>>

\* A thread takes _fork_watchers_lock with the lock_guard of
\* register_fork_watcher or of notify_pre_fork: it spins until the flag of
\* the spinlock is clear and sets it.
WatcherLock(t, op) ==
  /\ sfault = "none"
  /\ fpc[t] = "idle"
  /\ fork_watchers_lock = 0
  /\ fork_watchers_lock' = t
  /\ fpc' = [fpc EXCEPT ![t] = op]
  /\ UNCHANGED <<associated_objs, associated_objs_drop_on_fork, associated_objs_lock,
                 fork_watchers, pre_calls, spc, sarg, siter, sfault, nextInst,
                 built, returned, forkSnap, post_calls, pre_seen, flast>>
  /\ UNCHANGED <<ovars, pvars, cvars, avars, ivars, jvars>>

\* register_fork_watcher(w) inside the lock: push_back, and the lock_guard
\* clears the flag of the spinlock.
RegisterPush(t, w) ==
  /\ fpc[t] = "register"
  /\ PushBack(w)
  /\ fork_watchers_lock' = 0
  /\ fpc' = [fpc EXCEPT ![t] = "idle"]

\* notify_pre_fork() inside the lock: the hooks, the lock_guard clears the
\* flag of the spinlock, and the prune.
PreForkHooks(t) ==
  /\ fpc[t] = "pre"
  /\ PreFork
  /\ fork_watchers_lock' = 0
  /\ fpc' = [fpc EXCEPT ![t] = "idle"]

\* The fork watchers used by several threads, a step at a time.
FTNext ==
  \/ \E t \in Threads, op \in {"register", "pre"} : WatcherLock(t, op)
  \/ \E t \in Threads, w \in Watchers : RegisterPush(t, w)
  \/ \E t \in Threads : PreForkHooks(t)
  \/ NotifyPostFork

SNext ==
  \/ \E t \in Threads, n \in Names, T \in Types, d \in BOOLEAN : LookupCall(t, n, T, d)
  \/ \E t \in Threads : LookupLock(t)
  \/ \E t \in Threads : LookupFind(t)
  \/ \E t \in Threads : LookupEmplace(t)
  \/ \E t \in Threads : LookupReturn(t)
  \/ NotifyPreFork

\* The registry together with the fork watchers.
FNext ==
  \/ SNext
  \/ \E w \in Watchers : RegisterForkWatcher(w)
  \/ NotifyPostFork


(***************************************************************************)
(* The configuration observer registry: ObserverMgr<ConfigObs>.            *)
(* observers is the multimap from key to observer, as the sequence of its  *)
(* elements in map order: by key, equal keys in insertion order.           *)
(***************************************************************************)
Obs == {1, 2, 3}

ConfKeys == {1, 2, 3}

\* observer->get_tracked_conf_keys(): the observer's NULL-terminated key list.
TrackedKeys(o) ==
  CASE o = 1 -> <<1, 2>>
    [] o = 2 -> <<2>>
    [] OTHER -> <<>>

Range(q) == {q[i] : i \in 1..Len(q)}

Count(q, e) == Cardinality({i \in 1..Len(q) : q[i] = e})

SetMin(S) == CHOOSE x \in S : \A y \in S : x <= y

\* An emplace into a map that keeps one element for a key and an observer.
EmplaceUnique(m, k, o) ==
  IF \E i \in 1..Len(m) : m[i] = <<k, o>> THEN m
  ELSE LET n == Cardinality({i \in 1..Len(m) : m[i][1] <= k})
       IN SubSeq(m, 1, n) \o <<<<k, o>>>> \o SubSeq(m, n + 1, Len(m))

\* observers.emplace(k, o): after the last element whose key is not greater.
Emplace(m, k, o) ==
  LET n == Cardinality({i \in 1..Len(m) : m[i][1] <= k})
  IN SubSeq(m, 1, n) \o <<<<k, o>>>> \o SubSeq(m, n + 1, Len(m))

\* The loop of add_observer over the tracked keys.
RECURSIVE EmplaceAll(_, _, _)
EmplaceAll(m, ks, o) ==
  IF ks = <<>> THEN m ELSE EmplaceAll(Emplace(m, Head(ks), o), Tail(ks), o)

\* A range that holds every element of the map, whatever its key.
EqualRangeAll(m, k) ==
  m

\* observers.equal_range(key)
EqualRange(m, k) ==
  SelectSeq(m, LAMBDA e : e[1] = k)

\* The loop of for_each_change: callback(r->second, key) for the range of
\* every changed key, the keys in the order of the std::set.
RECURSIVE Dispatch(_, _)
Dispatch(m, ch) ==
  IF ch = {} THEN <<>>
  ELSE LET k == SetMin(ch)
           r == EqualRange(m, k)
       IN [i \in 1..Len(r) |-> <<r[i][2], k>>] \o Dispatch(m, ch \ {k})

\* A sink that gets a line for every changed key, whether or not get_val
\* could read its value.
RECURSIVE DiagnoseUnread(_, _, _, _)
DiagnoseUnread(m, ch, oss, bad) ==
  IF ch = {} THEN <<>>
  ELSE LET k == SetMin(ch)
           line == IF oss
                     THEN <<[key |-> k, unobserved |-> EqualRange(m, k) = <<>>]>>
                     ELSE <<>>
       IN line \o DiagnoseUnread(m, ch \ {k}, oss, bad)

\* What for_each_change writes to oss: for a changed key whose value get_val
\* could read, the key and its value, and "(not observed, change may require
\* restart)" when the key's range is empty.
RECURSIVE Diagnose(_, _, _, _)
Diagnose(m, ch, oss, bad) ==
  IF ch = {} THEN <<>>
  ELSE LET k == SetMin(ch)
           line == IF oss /\ k \notin bad
                     THEN <<[key |-> k, unobserved |-> EqualRange(m, k) = <<>>]>>
                     ELSE <<>>
       IN line \o Diagnose(m, ch \ {k}, oss, bad)

\* An assertion that never fires.
AssertPassesAlways(found_obs) ==
  TRUE

\* ceph_assert(found_obs) passes.
AssertPasses(found_obs) ==
  found_obs

NoOp == [op |-> "none", obs |-> 0, ch |-> {}, had |-> FALSE, oss |-> FALSE, bad |-> {}]

\* The place of a thread in the loops of for_each_change: the changed key it
\* is at and the number of elements of the key's range it has called.
NoCur == [key |-> 0, done |-> 0]

\* The threads inside for_each_change.
Dispatching == {t \in Threads : npc[t] # "idle"}

\* ObserverMgr has no lock: add_observer and remove_observer write the
\* multimap while the readers are inside the loops of for_each_change.  The
\* write is a data race with the readers' iterators, and the behaviour of
\* the program is undefined from there on: the fault is recorded and the
\* model follows the program no further.
Races(readers) ==
  readers # {}

OInit ==
  /\ observers = <<>>
  /\ calls = <<>>
  /\ diag = <<>>
  /\ regs = [o \in Obs |-> 0]
  /\ olast = NoOp
  /\ ofault = "none"
  /\ npc = [t \in Threads |-> "idle"]
  /\ nch = [t \in Threads |-> {}]
  /\ ncur = [t \in Threads |-> NoCur]
  /\ dlog = <<>>

\* add_observer(observer)
AddObserver(o) ==
  /\ ofault = "none"
  /\ regs[o] < MaxRegs
  /\ observers' = EmplaceAll(observers, TrackedKeys(o), o)
  /\ regs' = [regs EXCEPT ![o] = @ + 1]
  /\ olast' = [NoOp EXCEPT !.op = "add", !.obs = o, !.had = regs[o] > 0]
  /\ calls' = <<>>
  /\ diag' = <<>>
  /\ ofault' = IF Races(Dispatching) THEN "data_race" ELSE ofault
  /\ UNCHANGED nvars
  /\ UNCHANGED <<svars, pvars, cvars, avars, ivars, jvars>>

\* remove_observer(observer): erase every element of the observer, then
\* ceph_assert(found_obs).
RemoveObserver(o) ==
  /\ ofault = "none"
  /\ LET found_obs == \E i \in 1..Len(observers) : observers[i][2] = o
     IN ofault' = IF Races(Dispatching) THEN "data_race"
                  ELSE IF AssertPasses(found_obs) THEN "none" ELSE "ceph_assert"
  /\ observers' = SelectSeq(observers, LAMBDA e : e[2] # o)
  /\ regs' = [regs EXCEPT ![o] = 0]
  /\ olast' = [NoOp EXCEPT !.op = "remove", !.obs = o, !.had = regs[o] > 0]
  /\ calls' = <<>>
  /\ diag' = <<>>
  /\ UNCHANGED nvars
  /\ UNCHANGED <<svars, pvars, cvars, avars, ivars, jvars>>

\* for_each_change(changes, proxy, callback, oss); bad is the set of changed
\* keys whose value proxy.get_val cannot read.
ForEachChange(changes, oss, bad) ==
  /\ ofault = "none"
  /\ calls' = Dispatch(observers, changes)
  /\ diag' = Diagnose(observers, changes, oss, bad)
  /\ olast' = [NoOp EXCEPT !.op = "notify", !.ch = changes, !.oss = oss, !.bad = bad]
  /\ UNCHANGED <<observers, regs, ofault, nvars>>
  /\ UNCHANGED <<svars, pvars, cvars, avars, ivars, jvars>>

\* for_each_change(changes, proxy, callback, nullptr) is entered by a thread.
\* dlog is the record of the callbacks of the batches in progress: the
\* calling thread of every run of consecutive callbacks of one thread.  It
\* holds one batch of a thread, and starts afresh when the last batch in
\* progress ends.
NotifyBegin(t, changes) ==
  /\ ofault = "none"
  /\ npc[t] = "idle"
  /\ \A i \in 1..Len(dlog) : dlog[i] # t
  /\ npc' = [npc EXCEPT ![t] = "loop"]
  /\ nch' = [nch EXCEPT ![t] = changes]
  /\ ncur' = [ncur EXCEPT ![t] = NoCur]
  /\ UNCHANGED <<observers, calls, diag, regs, olast, ofault, dlog>>
  /\ UNCHANGED <<svars, pvars, cvars, avars, ivars, jvars>>

\* The range of the thread's key is exhausted, or it has no key yet.
RangeDone(t) ==
  \/ ncur[t].key = 0
  \/ ncur[t].done >= Len(EqualRange(observers, ncur[t].key))

\* The outer loop: the next changed key and observers.equal_range(key).
NotifyKey(t) ==
  /\ ofault = "none"
  /\ npc[t] = "loop"
  /\ RangeDone(t)
  /\ nch[t] # {}
  /\ ncur' = [ncur EXCEPT ![t] = [key |-> SetMin(nch[t]), done |-> 0]]
  /\ nch' = [nch EXCEPT ![t] = @ \ {SetMin(@)}]
  /\ UNCHANGED <<observers, calls, diag, regs, olast, ofault, npc, dlog>>
  /\ UNCHANGED <<svars, pvars, cvars, avars, ivars, jvars>>

\* The inner loop: callback(r->second, key); ++r.
NotifyCallback(t) ==
  /\ ofault = "none"
  /\ npc[t] = "loop"
  /\ ~RangeDone(t)
  /\ dlog' = IF dlog # <<>> /\ dlog[Len(dlog)] = t THEN dlog ELSE Append(dlog, t)
  /\ ncur' = [ncur EXCEPT ![t].done = @ + 1]
  /\ UNCHANGED <<observers, calls, diag, regs, olast, ofault, npc, nch>>
  /\ UNCHANGED <<svars, pvars, cvars, avars, ivars, jvars>>

\* The outer loop ends and for_each_change returns.
NotifyReturn(t) ==
  /\ ofault = "none"
  /\ npc[t] = "loop"
  /\ RangeDone(t)
  /\ nch[t] = {}
  /\ npc' = [npc EXCEPT ![t] = "idle"]
  /\ ncur' = [ncur EXCEPT ![t] = NoCur]
  /\ dlog' = IF Dispatching = {t} THEN <<>> ELSE dlog
  /\ UNCHANGED <<observers, calls, diag, regs, olast, ofault, nch>>
  /\ UNCHANGED <<svars, pvars, cvars, avars, ivars, jvars>>

\* The registry used by several threads: nothing in ObserverMgr keeps a call
\* from starting while another is in progress.
ONextThreads ==
  \/ \E o \in Obs : AddObserver(o)
  \/ \E o \in Obs : RemoveObserver(o)
  \/ \E t \in Threads, changes \in SUBSET ConfKeys : NotifyBegin(t, changes)
  \/ \E t \in Threads : NotifyKey(t)
  \/ \E t \in Threads : NotifyCallback(t)
  \/ \E t \in Threads : NotifyReturn(t)

ONext ==
  \/ \E o \in Obs : AddObserver(o)
  \/ \E o \in Obs : RemoveObserver(o)
  \/ \E changes \in SUBSET ConfKeys, oss \in BOOLEAN :
       \E bad \in SUBSET changes : ForEachChange(changes, oss, bad)


(***************************************************************************)
(* The pid-file guard: struct pidfh, pidfile_write and pidfile_remove.     *)
(* Every process has its own static pfh; the processes share one file      *)
(* system with one pid-file path.  pathIno is the inode the path names (0: *)
(* no such file), content the pid an inode's text parses to (0: none),     *)
(* lockOwner the process holding the fcntl write lock of an inode and kfd  *)
(* the inode the process's open descriptor refers to (0: none).            *)
(* A step is one system call with the code around it.                      *)
(***************************************************************************)
Procs == 1..NumProcs

Inodes == 1..NumInodes

\* pidfh::reset()
ResetHandle == [fd |-> -1, path |-> "", dev |-> 0, ino |-> 0]

NoChk ==
  [written |-> FALSE, verified |-> FALSE, pidok |-> FALSE, mismatch |-> FALSE,
   unlinked |-> FALSE]

\* pidfh::is_open()
is_open(h) ==
  h.path # "" /\ h.fd # -1

\* stat(pf_path, &st); ino 0 stands for the failure ENOENT.
Stat(path, pi) ==
  IF path = "pid" /\ pi # 0 THEN [dev |-> 1, ino |-> pi] ELSE [dev |-> 0, ino |-> 0]

\* A comparison of the device alone.
SameDevice(st, h) ==
  st.dev = h.dev

\* The negation of st.st_dev != pf_dev || st.st_ino != pf_ino.
SameFile(st, h) ==
  st.dev = h.dev /\ st.ino = h.ino

\* pidfh::verify()
Verify(h, pi) ==
  IF h.fd = -1 THEN "EINVAL"
  ELSE LET st == Stat(h.path, pi)
       IN IF st.ino = 0 THEN "ENOENT"
          ELSE IF ~SameFile(st, h) THEN "ESTALE"
          ELSE "OK"

\* A check that accepts any stored pid.
PidMatchesAlways(a, pid) ==
  TRUE

\* The negation of a != getpid().
PidMatches(a, pid) ==
  a = pid

\* An inode lives while the path names it or a descriptor refers to it.
InUse(pi, kf) ==
  {i \in Inodes : pi = i \/ \E p \in Procs : kf[p] = i}

\* The text and the lock of an inode end with it.
Norm(f, pi, kf) ==
  [i \in Inodes |-> IF i \in InUse(pi, kf) THEN f[i] ELSE 0]

FreeInodes == Inodes \ InUse(pathIno, kfd)

\* A close that drops the lock of the file whoever holds it.
UnlockAny(lo, p, i) ==
  [j \in Inodes |-> IF j = i THEN 0 ELSE lo[j]]

\* close(fd) by process p of a descriptor of inode i: the process's lock of
\* that file is released with it.
Unlock(lo, p, i) ==
  [j \in Inodes |-> IF j = i /\ lo[j] = p THEN 0 ELSE lo[j]]

Kernel(pi, kf, ct, lo) ==
  /\ pathIno' = pi
  /\ kfd' = kf
  /\ content' = Norm(ct, pi, kf)
  /\ lockOwner' = Norm(lo, pi, kf)

KernelSame == UNCHANGED <<pathIno, kfd, content, lockOwner>>

PInit ==
  /\ pfh = [p \in Procs |-> FALSE]
  /\ pf = [p \in Procs |-> ResetHandle]
  /\ ppc = [p \in Procs |-> "out"]
  /\ kfd = [p \in Procs |-> 0]
  /\ pathIno = 0
  /\ content = [i \in Inodes |-> 0]
  /\ lockOwner = [i \in Inodes |-> 0]
  /\ pret = [p \in Procs |-> "none"]
  /\ pbuf = [p \in Procs |-> 0]
  /\ pr = [p \in Procs |-> "none"]
  /\ pchk = [p \in Procs |-> NoChk]
  /\ pdead = [p \in Procs |-> FALSE]

\* The entry of pidfh::remove: if (!pf_path[0]) return 0.
RemoveEntry(h) ==
  IF h.path = "" THEN "rm_ret" ELSE "rm_verify"

\* pidfile_write(conf) up to the call of pfh->open: an empty pid_file returns
\* 0; ceph_assert(pfh == nullptr) aborts the process, whose descriptors the
\* kernel closes; else a handle is created and atexit registers
\* pidfile_remove, and a failing atexit returns -EINVAL with the handle kept.
\* A process that holds a descriptor a destroyed handle left open does not
\* ask for the pid file again.
PidfileWrite(p, cfg, atexit_ok) ==
  /\ ~pdead[p]
  /\ ppc[p] = "out"
  /\ pfh[p] \/ kfd[p] = 0
  /\ IF cfg = "empty"
       THEN /\ UNCHANGED <<pfh, pf, ppc, pdead>>
            /\ KernelSame
       ELSE IF pfh[p]
       THEN /\ pdead' = [pdead EXCEPT ![p] = TRUE]
            /\ pfh' = [pfh EXCEPT ![p] = FALSE]
            /\ pf' = [pf EXCEPT ![p] = ResetHandle]
            /\ Kernel(pathIno, [kfd EXCEPT ![p] = 0], content,
                      [j \in Inodes |-> IF lockOwner[j] = p THEN 0 ELSE lockOwner[j]])
            /\ UNCHANGED ppc
       ELSE /\ pfh' = [pfh EXCEPT ![p] = TRUE]
            /\ pf' = [pf EXCEPT ![p] = ResetHandle]
            /\ ppc' = [ppc EXCEPT ![p] = IF atexit_ok THEN "open" ELSE "out"]
            /\ UNCHANGED pdead
            /\ KernelSame
  /\ UNCHANGED <<pret, pbuf, pr, pchk>>
  /\ UNCHANGED <<svars, ovars, cvars, avars, ivars, jvars>>

\* pidfh::open up to the lock: snprintf of conf->pid_file into pf_path,
\* ::open(pf_path, O_CREAT|O_RDWR) and fstat(fd, &st), after which pf_fd,
\* pf_dev and pf_ino are set.  A name that does not fit returns -ENAMETOOLONG
\* with the cut name left in pf_path; a failing open resets the handle, a
\* failing fstat closes fd and resets the handle.  Any failure of open makes
\* pidfile_write call pidfile_remove and return r.
OpenPath(p, cfg, open_ok, fstat_ok) ==
  /\ ppc[p] = "open"
  /\ IF cfg = "toolong"
       THEN /\ open_ok /\ fstat_ok
            /\ pf' = [pf EXCEPT ![p].path = "cut"]
            /\ pr' = [pr EXCEPT ![p] = "ENAMETOOLONG"]
            /\ ppc' = [ppc EXCEPT ![p] = "rm_verify"]
            /\ KernelSame
       ELSE IF open_ok /\ (pathIno # 0 \/ FreeInodes # {})
       THEN LET i == IF pathIno # 0 THEN pathIno ELSE SetMin(FreeInodes)
            IN IF fstat_ok
                 THEN /\ pf' = [pf EXCEPT ![p] = [fd |-> 3, path |-> "pid", dev |-> 1,
                                                  ino |-> i]]
                      /\ Kernel(i, [kfd EXCEPT ![p] = i], content, lockOwner)
                      /\ ppc' = [ppc EXCEPT ![p] = "setlk"]
                      /\ UNCHANGED pr
                 ELSE /\ pf' = [pf EXCEPT ![p] = ResetHandle]
                      /\ Kernel(i, kfd, content, lockOwner)
                      /\ pr' = [pr EXCEPT ![p] = "EIO"]
                      /\ ppc' = [ppc EXCEPT ![p] = "rm_ret"]
       ELSE /\ fstat_ok
            /\ pf' = [pf EXCEPT ![p] = ResetHandle]
            /\ pr' = [pr EXCEPT ![p] = "EIO"]
            /\ ppc' = [ppc EXCEPT ![p] = "rm_ret"]
            /\ KernelSame
  /\ pret' = [pret EXCEPT ![p] = IF ppc'[p] = "rm_ret" THEN "OK" ELSE "none"]
  /\ UNCHANGED <<pfh, pbuf, pchk, pdead>>
  /\ UNCHANGED <<svars, ovars, cvars, avars, ivars, jvars>>

\* pidfh::open: fcntl(pf_fd, F_SETLK, &l) fails with EAGAIN when another
\* process holds the lock; any failure closes pf_fd and resets the handle.
OpenSetlk(p, ok) ==
  /\ ppc[p] = "setlk"
  /\ LET i == kfd[p]
         errno == IF lockOwner[i] \notin {0, p} THEN "EAGAIN"
                  ELSE IF ok THEN "OK" ELSE "EIO"
     IN IF errno = "OK"
          THEN /\ Kernel(pathIno, kfd, content, [lockOwner EXCEPT ![i] = p])
               /\ ppc' = [ppc EXCEPT ![p] = "ftruncate"]
               /\ UNCHANGED <<pf, pr, pret>>
          ELSE /\ pf' = [pf EXCEPT ![p] = ResetHandle]
               /\ pr' = [pr EXCEPT ![p] = errno]
               /\ pret' = [pret EXCEPT ![p] = "OK"]
               /\ ppc' = [ppc EXCEPT ![p] = "rm_ret"]
               /\ Kernel(pathIno, [kfd EXCEPT ![p] = 0], content, Unlock(lockOwner, p, i))
  /\ UNCHANGED <<pfh, pbuf, pchk, pdead>>
  /\ UNCHANGED <<svars, ovars, cvars, avars, ivars, jvars>>

\* pidfh::write: ftruncate(pf_fd, 0); a failure makes pidfile_write call
\* pidfile_remove.
WriteFtruncate(p, ok) ==
  /\ ppc[p] = "ftruncate"
  /\ IF ~is_open(pf[p])
       THEN /\ ok
            /\ ppc' = [ppc EXCEPT ![p] = "out"]
            /\ UNCHANGED <<pr, pret>>
            /\ KernelSame
       ELSE IF ok
       THEN /\ Kernel(pathIno, kfd, [content EXCEPT ![kfd[p]] = 0], lockOwner)
            /\ ppc' = [ppc EXCEPT ![p] = "safe_write"]
            /\ UNCHANGED <<pr, pret>>
       ELSE /\ pr' = [pr EXCEPT ![p] = "EIO"]
            /\ ppc' = [ppc EXCEPT ![p] = RemoveEntry(pf[p])]
            /\ pret' = [pret EXCEPT ![p] = IF ppc'[p] = "rm_ret" THEN "OK" ELSE "none"]
            /\ KernelSame
  /\ UNCHANGED <<pfh, pf, pbuf, pchk, pdead>>
  /\ UNCHANGED <<svars, ovars, cvars, avars, ivars, jvars>>

\* pidfh::write: safe_write of "%d\n" with getpid(); on success pidfile_write
\* returns 0.
WriteSafeWrite(p, ok) ==
  /\ ppc[p] = "safe_write"
  /\ IF ok
       THEN /\ Kernel(pathIno, kfd, [content EXCEPT ![kfd[p]] = p], lockOwner)
            /\ ppc' = [ppc EXCEPT ![p] = "out"]
            /\ pchk' = [pchk EXCEPT ![p].written = TRUE]
            /\ UNCHANGED <<pr, pret>>
       ELSE /\ pr' = [pr EXCEPT ![p] = "EIO"]
            /\ ppc' = [ppc EXCEPT ![p] = RemoveEntry(pf[p])]
            /\ pret' = [pret EXCEPT ![p] = IF ppc'[p] = "rm_ret" THEN "OK" ELSE "none"]
            /\ UNCHANGED pchk
            /\ KernelSame
  /\ UNCHANGED <<pfh, pf, pbuf, pdead>>
  /\ UNCHANGED <<svars, ovars, cvars, avars, ivars, jvars>>

\* pidfile_remove(): delete pfh when there is one, which runs ~pidfh and so
\* pidfh::remove.
PidfileRemove(p) ==
  /\ ~pdead[p]
  /\ ppc[p] = "out"
  /\ ppc' = [ppc EXCEPT ![p] = IF pfh[p] THEN RemoveEntry(pf[p]) ELSE "out"]
  /\ pret' = [pret EXCEPT ![p] = IF ppc'[p] = "rm_ret" THEN "OK" ELSE "none"]
  /\ UNCHANGED <<pfh, pf, pbuf, pr, pchk, pdead>>
  /\ KernelSame
  /\ UNCHANGED <<svars, ovars, cvars, avars, ivars, jvars>>

\* pidfh::remove: ret = verify(); a failure returns ret, after close and
\* reset when pf_fd is not -1.
RemoveVerify(p) ==
  /\ ppc[p] = "rm_verify"
  /\ LET ret == Verify(pf[p], pathIno)
     IN IF ret = "OK"
          THEN /\ pchk' = [pchk EXCEPT ![p].verified = TRUE]
               /\ ppc' = [ppc EXCEPT ![p] = "rm_read"]
               /\ UNCHANGED pret
          ELSE /\ pret' = [pret EXCEPT ![p] = ret]
               /\ ppc' = [ppc EXCEPT ![p] = IF pf[p].fd # -1 THEN "rm_vclose" ELSE "rm_ret"]
               /\ UNCHANGED pchk
  /\ UNCHANGED <<pfh, pf, pbuf, pr, pdead>>
  /\ KernelSame
  /\ UNCHANGED <<svars, ovars, cvars, avars, ivars, jvars>>

\* pidfh::remove, verify failed: ::close(pf_fd); reset().
RemoveVerifyClose(p) ==
  /\ ppc[p] = "rm_vclose"
  /\ Kernel(pathIno, [kfd EXCEPT ![p] = 0], content, Unlock(lockOwner, p, kfd[p]))
  /\ pf' = [pf EXCEPT ![p] = ResetHandle]
  /\ ppc' = [ppc EXCEPT ![p] = "rm_ret"]
  /\ UNCHANGED <<pfh, pret, pbuf, pr, pchk, pdead>>
  /\ UNCHANGED <<svars, ovars, cvars, avars, ivars, jvars>>

\* pidfh::remove: lseek(pf_fd, 0, SEEK_SET), whose failure returns at once
\* with the descriptor open, then res = safe_read(pf_fd, buf, sizeof(buf));
\* -1 stands for a failed read.
RemoveRead(p, seek_ok, read_ok) ==
  /\ ppc[p] = "rm_read"
  /\ IF ~seek_ok
       THEN /\ read_ok
            /\ pret' = [pret EXCEPT ![p] = "EIO"]
            /\ ppc' = [ppc EXCEPT ![p] = "rm_ret"]
            /\ UNCHANGED pbuf
       ELSE /\ pbuf' = [pbuf EXCEPT ![p] = IF read_ok THEN content[kfd[p]] ELSE -1]
            /\ ppc' = [ppc EXCEPT ![p] = "rm_close"]
            /\ UNCHANGED pret
  /\ UNCHANGED <<pfh, pf, pr, pchk, pdead>>
  /\ KernelSame
  /\ UNCHANGED <<svars, ovars, cvars, avars, ivars, jvars>>

\* pidfh::remove: ::close(pf_fd), then the return of a failed read, and the
\* comparison of atoi(buf) with getpid(), which returns -EDOM on a mismatch.
RemoveClose(p) ==
  /\ ppc[p] = "rm_close"
  /\ Kernel(pathIno, [kfd EXCEPT ![p] = 0], content, Unlock(lockOwner, p, kfd[p]))
  /\ pchk' = [pchk EXCEPT ![p].pidok = (pbuf[p] = p),
                          ![p].mismatch = (pbuf[p] >= 0 /\ pbuf[p] # p)]
  /\ IF pbuf[p] < 0
       THEN /\ pret' = [pret EXCEPT ![p] = "EIO"]
            /\ ppc' = [ppc EXCEPT ![p] = "rm_ret"]
       ELSE IF ~PidMatches(pbuf[p], p)
       THEN /\ pret' = [pret EXCEPT ![p] = "EDOM"]
            /\ ppc' = [ppc EXCEPT ![p] = "rm_ret"]
       ELSE /\ ppc' = [ppc EXCEPT ![p] = "rm_unlink"]
            /\ UNCHANGED pret
  /\ pbuf' = [pbuf EXCEPT ![p] = 0]
  /\ UNCHANGED <<pfh, pf, pr, pdead>>
  /\ UNCHANGED <<svars, ovars, cvars, avars, ivars, jvars>>

\* pidfh::remove: ::unlink(pf_path); reset() and return 0 on success.
RemoveUnlink(p, ok) ==
  /\ ppc[p] = "rm_unlink"
  /\ IF ok /\ Stat(pf[p].path, pathIno).ino # 0
       THEN /\ Kernel(0, kfd, content, lockOwner)
            /\ pf' = [pf EXCEPT ![p] = ResetHandle]
            /\ pret' = [pret EXCEPT ![p] = "OK"]
            /\ pchk' = [pchk EXCEPT ![p].unlinked = TRUE]
       ELSE /\ pret' = [pret EXCEPT ![p] =
                          IF Stat(pf[p].path, pathIno).ino = 0 THEN "ENOENT" ELSE "EIO"]
            /\ UNCHANGED <<pf, pchk>>
            /\ KernelSame
  /\ ppc' = [ppc EXCEPT ![p] = "rm_ret"]
  /\ UNCHANGED <<pfh, pbuf, pr, pdead>>
  /\ UNCHANGED <<svars, ovars, cvars, avars, ivars, jvars>>

\* The end of ~pidfh and of pidfile_remove: the handle is freed and pfh is
\* nullptr; a descriptor remove() did not close stays open in the process.
\* A pidfile_write that was cleaning up returns its r.
RemoveReturn(p) ==
  /\ ppc[p] = "rm_ret"
  /\ pfh' = [pfh EXCEPT ![p] = FALSE]
  /\ pf' = [pf EXCEPT ![p] = ResetHandle]
  /\ ppc' = [ppc EXCEPT ![p] = "out"]
  /\ pr' = [pr EXCEPT ![p] = "none"]
  /\ pret' = [pret EXCEPT ![p] = "none"]
  /\ pchk' = [pchk EXCEPT ![p] = NoChk]
  /\ UNCHANGED <<pbuf, pdead>>
  /\ KernelSame
  /\ UNCHANGED <<svars, ovars, cvars, avars, ivars, jvars>>

PUnchanged == UNCHANGED <<pfh, pf, ppc, pret, pbuf, pr, pchk, pdead>>

\* Another program replaces the file at the path by a new, empty file.
ExtReplace ==
  /\ pathIno # 0
  /\ Inodes \ InUse(0, kfd) # {}
  /\ Kernel(SetMin(Inodes \ InUse(0, kfd)), kfd,
            [content EXCEPT ![SetMin(Inodes \ InUse(0, kfd))] = 0], lockOwner)
  /\ PUnchanged
  /\ UNCHANGED <<svars, ovars, cvars, avars, ivars, jvars>>

\* Another program unlinks the path.
ExtUnlink ==
  /\ pathIno # 0
  /\ Kernel(0, kfd, content, lockOwner)
  /\ PUnchanged
  /\ UNCHANGED <<svars, ovars, cvars, avars, ivars, jvars>>

\* Another program, which does not take the lock, rewrites the file in place.
ExtOverwrite(c) ==
  /\ pathIno # 0
  /\ content[pathIno] # c
  /\ Kernel(pathIno, kfd, [content EXCEPT ![pathIno] = c], lockOwner)
  /\ PUnchanged
  /\ UNCHANGED <<svars, ovars, cvars, avars, ivars, jvars>>

PNextCoop ==
  \/ \E p \in Procs, cfg \in {"empty", "set"}, ok \in BOOLEAN : PidfileWrite(p, cfg, ok)
  \/ \E p \in Procs, cfg \in {"fits", "toolong"}, open_ok, fstat_ok \in BOOLEAN :
       OpenPath(p, cfg, open_ok, fstat_ok)
  \/ \E p \in Procs, ok \in BOOLEAN : OpenSetlk(p, ok)
  \/ \E p \in Procs, ok \in BOOLEAN : WriteFtruncate(p, ok)
  \/ \E p \in Procs, ok \in BOOLEAN : WriteSafeWrite(p, ok)
  \/ \E p \in Procs : PidfileRemove(p)
  \/ \E p \in Procs : RemoveVerify(p)
  \/ \E p \in Procs : RemoveVerifyClose(p)
  \/ \E p \in Procs, seek_ok, read_ok \in BOOLEAN : RemoveRead(p, seek_ok, read_ok)
  \/ \E p \in Procs : RemoveClose(p)
  \/ \E p \in Procs, ok \in BOOLEAN : RemoveUnlink(p, ok)
  \/ \E p \in Procs : RemoveReturn(p)

PNext ==
  \/ PNextCoop
  \/ ExtReplace
  \/ ExtUnlink
  \/ \E c \in 0..NumProcs : ExtOverwrite(c)


(***************************************************************************)
(* The context: the reference count of CephContext, its service thread     *)
(* CephContextServiceThread and its destructor.  rheld is the number of    *)
(* references a thread holds, cpc the place of a thread inside a call of   *)
(* the context, wpc the place of the service thread in entry(), wlock      *)
(* whether the service thread holds its _lock (the callers hold it inside  *)
(* one step only), wnotified whether a notify_all reached the thread in    *)
(* its wait, and torn the components the destructor has torn down so far.  *)
(***************************************************************************)

\* The order of construction in CephContext::CephContext.
CtorOrder ==
  <<"log", "log_obs", "cct_obs", "lockdep_obs", "admin_socket", "heartbeat_map",
    "plugin_registry", "admin_hook">>

\* A teardown in the exact reverse of the order of construction.
DtorOrderReversed ==
  <<"cct_perf", "admin_hook", "plugin_registry", "heartbeat_map", "admin_socket",
    "perf_counters_collection", "perf_counters_conf_obs", "lockdep_obs", "cct_obs",
    "log_obs", "log", "crypto">>

\* The order of the teardown in CephContext::~CephContext after
\* join_service_thread().
DtorOrder ==
  <<"cct_perf", "plugin_registry", "admin_hook", "admin_socket", "heartbeat_map",
    "perf_counters_collection", "perf_counters_conf_obs", "log_obs", "cct_obs",
    "lockdep_obs", "log", "crypto">>

\* A test that also takes a count of one for the last reference.
ReachesZeroOrOne(n) ==
  n <= 1

\* --nref == 0
ReachesZero(n) ==
  n = 0

\* A test that never finds a service thread.
AlreadyRunningNever(st) ==
  FALSE

\* if (_service_thread) return;
AlreadyRunning(st) ==
  st

\* A wait that never ends by timeout.
TimedWaitNever(interval) ==
  FALSE

\* if (heartbeat_interval) _cond.wait_for(l, interval); else _cond.wait(l);
TimedWait(interval) ==
  interval # 0

\* A notify_all that wakes nobody.
NotifyAllLost(waiting) ==
  FALSE

\* _cond.notify_all(): the threads waiting at that moment are woken.
NotifyAll(waiting) ==
  waiting

\* A join that does not wait for the thread.
ThreadDoneAlways(pc) ==
  TRUE

\* thread->join() returns once entry() has returned.
ThreadDone(pc) ==
  pc = "exited"

CInit ==
  /\ nref = 1
  /\ rheld = [t \in Threads |-> IF t = 1 THEN 1 ELSE 0]
  /\ cpc = [t \in Threads |-> "idle"]
  /\ deleted = 0
  /\ service_thread = FALSE
  /\ service_thread_lock = 0
  /\ created = 0
  /\ safe_to_start_threads = FALSE
  /\ heartbeat_interval \in {0, 1}
  /\ wpc = "none"
  /\ wlock = FALSE
  /\ wnotified = FALSE
  /\ reopen_logs = FALSE
  /\ exit_thread = FALSE
  /\ torn = <<>>

\* CephContext::get() by a thread that holds a reference; the new reference
\* goes to thread u.  The count stays far below the width of unsigned.
Get(t, u) ==
  /\ cpc[t] = "idle"
  /\ rheld[t] > 0
  /\ nref < MaxRef
  /\ nref' = nref + 1
  /\ rheld' = [rheld EXCEPT ![u] = @ + 1]
  /\ UNCHANGED <<cpc, deleted, service_thread, service_thread_lock, created,
                 safe_to_start_threads, heartbeat_interval, wpc, wlock, wnotified,
                 reopen_logs, exit_thread, torn>>
  /\ UNCHANGED <<svars, ovars, pvars, avars, ivars, jvars>>

\* CephContext::put(): the atomic --nref and its test; the thread that finds
\* zero runs delete this.
Put(t) ==
  /\ cpc[t] = "idle"
  /\ rheld[t] > 0
  /\ nref' = nref - 1
  /\ rheld' = [rheld EXCEPT ![t] = @ - 1]
  /\ cpc' = [cpc EXCEPT ![t] = IF ReachesZero(nref') THEN "d_clear" ELSE "idle"]
  /\ UNCHANGED <<deleted, service_thread, service_thread_lock, created,
                 safe_to_start_threads, heartbeat_interval, wpc, wlock, wnotified,
                 reopen_logs, exit_thread, torn>>
  /\ UNCHANGED <<svars, ovars, pvars, avars, ivars, jvars>>

\* start_service_thread(): the block under _service_thread_lock.  With a
\* service thread present the call returns; else a thread is created, with
\* _reopen_logs and _exit_thread false, and started.  The call comes from a
\* holder of the context or from common_init_finish.
StartServiceThread(t) ==
  /\ cpc[t] \in {"idle", "init_start"}
  /\ rheld[t] > 0
  /\ service_thread_lock = 0
  /\ IF AlreadyRunning(service_thread)
       THEN /\ cpc' = [cpc EXCEPT ![t] = "idle"]
            /\ init_by' = IF init_by = t THEN 0 ELSE init_by
            /\ UNCHANGED <<service_thread, created, wpc, wlock, wnotified, reopen_logs,
                           exit_thread>>
       ELSE /\ UNCHANGED init_by /\ service_thread' = TRUE
            /\ created' = created + 1
            /\ wpc' = "top"
            /\ wlock' = FALSE
            /\ wnotified' = FALSE
            /\ reopen_logs' = FALSE
            /\ exit_thread' = FALSE
            /\ cpc' = [cpc EXCEPT ![t] = "st_rest"]
  /\ UNCHANGED <<nref, rheld, deleted, service_thread_lock, safe_to_start_threads,
                 heartbeat_interval, torn>>
  /\ UNCHANGED <<finished, no_daemon_actions, crypto_inits, log_started, log_starts,
                 ilast>>
  /\ UNCHANGED <<svars, ovars, pvars, avars, jvars>>

\* start_service_thread() after the block: the perf counters, the flush on
\* exit, _conf.set_safe_to_start_threads(), the observers' callbacks and the
\* admin socket.
StartRest(t) ==
  /\ cpc[t] = "st_rest"
  /\ safe_to_start_threads' = TRUE
  /\ cpc' = [cpc EXCEPT ![t] = "idle"]
  /\ UNCHANGED <<nref, rheld, deleted, service_thread, service_thread_lock, created,
                 heartbeat_interval, wpc, wlock, wnotified, reopen_logs, exit_thread,
                 torn>>
  /\ init_by' = IF init_by = t THEN 0 ELSE init_by
  /\ UNCHANGED <<finished, no_daemon_actions, crypto_inits, log_started, log_starts,
                 ilast>>
  /\ UNCHANGED <<svars, ovars, pvars, avars, jvars>>

\* CephContext::reopen_logs(): take _service_thread_lock; without a service
\* thread return, else call its reopen_logs() with the lock still held.
ReopenLogs(t) ==
  /\ cpc[t] = "idle"
  /\ rheld[t] > 0
  /\ service_thread_lock = 0
  /\ IF service_thread
       THEN /\ service_thread_lock' = t
            /\ cpc' = [cpc EXCEPT ![t] = "ro_set"]
       ELSE UNCHANGED <<service_thread_lock, cpc>>
  /\ UNCHANGED <<nref, rheld, deleted, service_thread, created, safe_to_start_threads,
                 heartbeat_interval, wpc, wlock, wnotified, reopen_logs, exit_thread,
                 torn>>
  /\ UNCHANGED <<svars, ovars, pvars, avars, ivars, jvars>>

\* CephContextServiceThread::reopen_logs(): under _lock, _reopen_logs = true
\* and _cond.notify_all(); then the caller releases _service_thread_lock.
ReopenSet(t) ==
  /\ cpc[t] = "ro_set"
  /\ ~wlock
  /\ reopen_logs' = TRUE
  /\ wnotified' = (wnotified \/ NotifyAll(wpc = "wait"))
  /\ service_thread_lock' = 0
  /\ cpc' = [cpc EXCEPT ![t] = "idle"]
  /\ UNCHANGED <<nref, rheld, deleted, service_thread, created, safe_to_start_threads,
                 heartbeat_interval, wpc, wlock, exit_thread, torn>>
  /\ UNCHANGED <<svars, ovars, pvars, avars, ivars, jvars>>

\* entry(): the top of the loop.  The thread takes _lock; with _exit_thread
\* set it leaves the loop, else it waits on _cond, which releases _lock.
WorkerTop ==
  /\ wpc = "top"
  /\ ~wlock
  /\ wpc' = IF exit_thread THEN "exited" ELSE "wait"
  /\ wnotified' = FALSE
  /\ UNCHANGED <<nref, rheld, cpc, deleted, service_thread, service_thread_lock, created,
                 safe_to_start_threads, heartbeat_interval, wlock, reopen_logs,
                 exit_thread, torn>>
  /\ UNCHANGED <<svars, ovars, pvars, avars, ivars, jvars>>

\* An end of the wait that goes on to the housekeeping without the second
\* test of _exit_thread.
WorkerWakeNoExitCheck(reason) ==
  /\ wpc = "wait"
  /\ ~wlock
  /\ \/ reason = "notify" /\ wnotified
     \/ reason = "timeout" /\ TimedWait(heartbeat_interval)
     \/ reason = "spurious"
  /\ wnotified' = FALSE
  /\ wpc' = IF reopen_logs THEN "reopen" ELSE "touch"
  /\ wlock' = TRUE
  /\ UNCHANGED <<nref, rheld, cpc, deleted, service_thread, service_thread_lock, created,
                 safe_to_start_threads, heartbeat_interval, reopen_logs, exit_thread,
                 torn>>
  /\ UNCHANGED <<svars, ovars, pvars, avars, ivars, jvars>>

\* entry(): the end of the wait, by a notify_all, by the timeout of wait_for
\* or spuriously; the thread holds _lock again, leaves the loop with
\* _exit_thread set and else goes on to the housekeeping.
WorkerWake(reason) ==
  /\ wpc = "wait"
  /\ ~wlock
  /\ \/ reason = "notify" /\ wnotified
     \/ reason = "timeout" /\ TimedWait(heartbeat_interval)
     \/ reason = "spurious"
  /\ wnotified' = FALSE
  /\ IF exit_thread
       THEN /\ wpc' = "exited"
            /\ UNCHANGED wlock
       ELSE /\ wpc' = IF reopen_logs THEN "reopen" ELSE "touch"
            /\ wlock' = TRUE
  /\ UNCHANGED <<nref, rheld, cpc, deleted, service_thread, service_thread_lock, created,
                 safe_to_start_threads, heartbeat_interval, reopen_logs, exit_thread,
                 torn>>
  /\ UNCHANGED <<svars, ovars, pvars, avars, ivars, jvars>>

\* A reopen of the log file that leaves _reopen_logs set.
WorkerReopenKeeps ==
  /\ wpc = "reopen"
  /\ wpc' = "touch"
  /\ UNCHANGED <<nref, rheld, cpc, deleted, service_thread, service_thread_lock, created,
                 safe_to_start_threads, heartbeat_interval, wlock, wnotified,
                 reopen_logs, exit_thread, torn>>
  /\ UNCHANGED <<svars, ovars, pvars, avars, ivars, jvars>>

\* entry(): _cct->_log->reopen_log_file(); _reopen_logs = false.
WorkerReopen ==
  /\ wpc = "reopen"
  /\ reopen_logs' = FALSE
  /\ wpc' = "touch"
  /\ UNCHANGED <<nref, rheld, cpc, deleted, service_thread, service_thread_lock, created,
                 safe_to_start_threads, heartbeat_interval, wlock, wnotified,
                 exit_thread, torn>>
  /\ UNCHANGED <<svars, ovars, pvars, avars, ivars, jvars>>

\* entry(): check_touch_file(), _refresh_perf_values() and the end of the
\* iteration, which releases _lock.
WorkerTouch ==
  /\ wpc = "touch"
  /\ wpc' = "top"
  /\ wlock' = FALSE
  /\ UNCHANGED <<nref, rheld, cpc, deleted, service_thread, service_thread_lock, created,
                 safe_to_start_threads, heartbeat_interval, wnotified, reopen_logs,
                 exit_thread, torn>>
  /\ UNCHANGED <<svars, ovars, pvars, avars, ivars, jvars>>

\* ~CephContext(): associated_objs.clear().
DtorClear(t) ==
  /\ cpc[t] = "d_clear"
  /\ associated_objs' = {}
  /\ cpc' = [cpc EXCEPT ![t] = "d_join"]
  /\ UNCHANGED <<nref, rheld, deleted, service_thread, service_thread_lock, created,
                 safe_to_start_threads, heartbeat_interval, wpc, wlock, wnotified,
                 reopen_logs, exit_thread, torn>>
  /\ UNCHANGED <<associated_objs_drop_on_fork, associated_objs_lock, fork_watchers,
                 pre_calls, spc, sarg, siter, sfault, nextInst, built, returned,
                 forkSnap, fvars>>
  /\ UNCHANGED <<ovars, pvars, avars, ivars, jvars>>

\* join_service_thread(): under _service_thread_lock, return when there is no
\* service thread, else take the thread and set _service_thread = NULL.
JoinServiceThread(t) ==
  /\ cpc[t] = "d_join"
  /\ service_thread_lock = 0
  /\ IF service_thread
       THEN /\ service_thread' = FALSE
            /\ cpc' = [cpc EXCEPT ![t] = "d_exit"]
       ELSE /\ cpc' = [cpc EXCEPT ![t] = "d_tear"]
            /\ UNCHANGED service_thread
  /\ UNCHANGED <<nref, rheld, deleted, service_thread_lock, created,
                 safe_to_start_threads, heartbeat_interval, wpc, wlock, wnotified,
                 reopen_logs, exit_thread, torn>>
  /\ UNCHANGED <<svars, ovars, pvars, avars, ivars, jvars>>

\* join_service_thread(): thread->exit_thread(), which under _lock sets
\* _exit_thread = true and calls _cond.notify_all().
JoinExitThread(t) ==
  /\ cpc[t] = "d_exit"
  /\ ~wlock
  /\ exit_thread' = TRUE
  /\ wnotified' = (wnotified \/ NotifyAll(wpc = "wait"))
  /\ cpc' = [cpc EXCEPT ![t] = "d_wait"]
  /\ UNCHANGED <<nref, rheld, deleted, service_thread, service_thread_lock, created,
                 safe_to_start_threads, heartbeat_interval, wpc, wlock, reopen_logs,
                 torn>>
  /\ UNCHANGED <<svars, ovars, pvars, avars, ivars, jvars>>

\* join_service_thread(): thread->join(); delete thread.
JoinThread(t) ==
  /\ cpc[t] = "d_wait"
  /\ ThreadDone(wpc)
  /\ wpc' = IF wpc = "exited" THEN "joined" ELSE wpc
  /\ cpc' = [cpc EXCEPT ![t] = "d_tear"]
  /\ UNCHANGED <<nref, rheld, deleted, service_thread, service_thread_lock, created,
                 safe_to_start_threads, heartbeat_interval, wlock, wnotified,
                 reopen_logs, exit_thread, torn>>
  /\ UNCHANGED <<svars, ovars, pvars, avars, ivars, jvars>>

\* ~CephContext() after join_service_thread(): the next component of the
\* teardown; after the last one delete this is complete.
DtorTear(t) ==
  /\ cpc[t] = "d_tear"
  /\ Len(torn) < Len(DtorOrder)
  /\ torn' = Append(torn, DtorOrder[Len(torn) + 1])
  /\ IF Len(torn') = Len(DtorOrder)
       THEN /\ deleted' = deleted + 1
            /\ cpc' = [cpc EXCEPT ![t] = "idle"]
       ELSE UNCHANGED <<deleted, cpc>>
  /\ UNCHANGED <<nref, rheld, service_thread, service_thread_lock, created,
                 safe_to_start_threads, heartbeat_interval, wpc, wlock, wnotified,
                 reopen_logs, exit_thread>>
  /\ UNCHANGED <<svars, ovars, pvars, avars, ivars, jvars>>

CNext ==
  \/ \E t, u \in Threads : Get(t, u)
  \/ \E t \in Threads : Put(t)
  \/ \E t \in Threads : StartServiceThread(t)
  \/ \E t \in Threads : StartRest(t)
  \/ \E t \in Threads : ReopenLogs(t)
  \/ \E t \in Threads : ReopenSet(t)
  \/ WorkerTop
  \/ \E reason \in {"notify", "timeout", "spurious"} : WorkerWake(reason)
  \/ WorkerReopen
  \/ WorkerTouch
  \/ \E t \in Threads : DtorClear(t)
  \/ \E t \in Threads : JoinServiceThread(t)
  \/ \E t \in Threads : JoinExitThread(t)
  \/ \E t \in Threads : JoinThread(t)
  \/ \E t \in Threads : DtorTear(t)

\* A test that never finds the context finished.
FinishedNever(f) ==
  FALSE

\* if (cct->_finished) return;
Finished(f) ==
  f

NoInit == [called |-> FALSE, was_finished |-> FALSE]

IInit ==
  /\ finished = FALSE
  /\ init_by = 0
  /\ no_daemon_actions = FALSE
  /\ crypto_inits = 0
  /\ log_started = FALSE
  /\ log_starts = 0
  /\ ilast = NoInit

\* set_init_flags(flags): CINIT_FLAG_NO_DAEMON_ACTIONS is set or cleared.
SetInitFlags(t, b) ==
  /\ cpc[t] = "idle"
  /\ rheld[t] > 0
  /\ init_by = 0
  /\ no_daemon_actions # b
  /\ no_daemon_actions' = b
  /\ UNCHANGED <<finished, init_by, crypto_inits, log_started, log_starts, ilast>>
  /\ UNCHANGED cvars
  /\ UNCHANGED <<svars, ovars, pvars, avars, jvars>>

\* common_init_finish(cct), one call after the other: return when _finished
\* is set; else set it, init_crypto(), start the log unless it is started,
\* and go on to start_service_thread() unless the flags forbid it.
CommonInitFinish(t) ==
  /\ cpc[t] = "idle"
  /\ rheld[t] > 0
  /\ init_by = 0
  /\ ilast' = [called |-> TRUE, was_finished |-> finished]
  /\ IF Finished(finished)
       THEN UNCHANGED <<finished, init_by, crypto_inits, log_started, log_starts, cpc>>
       ELSE /\ finished' = TRUE
            /\ crypto_inits' = crypto_inits + 1
            /\ log_started' = TRUE
            /\ log_starts' = IF log_started THEN log_starts ELSE log_starts + 1
            /\ IF no_daemon_actions
                 THEN UNCHANGED <<init_by, cpc>>
                 ELSE /\ init_by' = t
                      /\ cpc' = [cpc EXCEPT ![t] = "init_start"]
  /\ UNCHANGED no_daemon_actions
  /\ UNCHANGED <<nref, rheld, deleted, service_thread, service_thread_lock, created,
                 safe_to_start_threads, heartbeat_interval, wpc, wlock, wnotified,
                 reopen_logs, exit_thread, torn>>
  /\ UNCHANGED <<svars, ovars, pvars, avars, jvars>>

\* The context with the calls of common_init_finish.
INext ==
  \/ CNext
  \/ \E t \in Threads, b \in BOOLEAN : SetInitFlags(t, b)
  \/ \E t \in Threads : CommonInitFinish(t)

\* The steps of a call in progress and of the service thread are taken in
\* the end; a lock that is free again and again is obtained in the end.  No
\* call is ever forced to begin, and no wait is forced to end spuriously.
CFair ==
  /\ WF_vars(WorkerTop)
  /\ WF_vars(WorkerWake("notify"))
  /\ WF_vars(WorkerWake("timeout"))
  /\ WF_vars(WorkerReopen)
  /\ WF_vars(WorkerTouch)
  /\ \A t \in Threads :
       /\ WF_vars(StartRest(t))
       /\ SF_vars(ReopenSet(t))
       /\ WF_vars(DtorClear(t))
       /\ SF_vars(JoinServiceThread(t))
       /\ SF_vars(JoinExitThread(t))
       /\ WF_vars(JoinThread(t))
       /\ WF_vars(DtorTear(t))

(***************************************************************************)
(* start_service_thread() against the join_service_thread() of the         *)
(* destructor.  The destructor runs in the thread that dropped the last     *)
(* reference; a thread that kept the plain pointer of the context, as the   *)
(* callers of common_init_finish(cct) do, can still call                    *)
(* start_service_thread() until the memory of the context is released.      *)
(* Every CephContextServiceThread has its own _lock and _exit_thread; a     *)
(* worker holds its _lock from the top of an iteration to its end, the      *)
(* wait excepted.                                                           *)
(***************************************************************************)

WorkerIds == 1..MaxWorkers

\* A thread is alive from create() until entry() has returned.
Alive(w) ==
  workers[w] \in {"top", "wait", "house"}

JInit ==
  /\ sthread = 0
  /\ workers = [w \in WorkerIds |-> "unborn"]
  /\ wexit = [w \in WorkerIds |-> FALSE]
  /\ wreopen = [w \in WorkerIds |-> FALSE]
  /\ jby = 0
  /\ jpc = "none"
  /\ jthread = 0

\* start_service_thread(): the block under _service_thread_lock, by a thread
\* other than the one in the destructor, before the context is released.
StartCall(t) ==
  /\ t # jby
  /\ jpc # "done"
  /\ IF sthread # 0
       THEN UNCHANGED <<sthread, workers>>
       ELSE \E w \in WorkerIds :
              /\ workers[w] = "unborn"
              /\ \A v \in WorkerIds : v < w => workers[v] # "unborn"
              /\ sthread' = w
              /\ workers' = [workers EXCEPT ![w] = "top"]
  /\ UNCHANGED <<wexit, wreopen, jby, jpc, jthread>>
  /\ UNCHANGED <<svars, ovars, pvars, cvars, avars, ivars>>

\* CephContext::reopen_logs(): under _service_thread_lock, with a service
\* thread its reopen_logs(), which sets _reopen_logs under the worker's _lock.
ReopenCall(t) ==
  /\ t # jby
  /\ jpc # "done"
  /\ sthread # 0
  /\ workers[sthread] # "house"
  /\ ~wreopen[sthread]
  /\ wreopen' = [wreopen EXCEPT ![sthread] = TRUE]
  /\ UNCHANGED <<sthread, workers, wexit, jby, jpc, jthread>>
  /\ UNCHANGED <<svars, ovars, pvars, cvars, avars, ivars>>

\* entry() of worker w, one step: at the top the test of _exit_thread under
\* _lock and the wait; the end of the wait with the second test; the
\* housekeeping, which clears _reopen_logs, and the end of the iteration.
WorkerStep(w) ==
  /\ Alive(w)
  /\ workers' = [workers EXCEPT ![w] =
                   CASE workers[w] = "top" -> IF wexit[w] THEN "exited" ELSE "wait"
                     [] workers[w] = "wait" -> IF wexit[w] THEN "exited" ELSE "house"
                     [] workers[w] = "house" -> "top"]
  /\ wreopen' = [wreopen EXCEPT ![w] = IF workers[w] = "house" THEN FALSE ELSE @]
  /\ UNCHANGED <<sthread, wexit, jby, jpc, jthread>>
  /\ UNCHANGED <<svars, ovars, pvars, cvars, avars, ivars>>

\* ~CephContext() calls join_service_thread(): under _service_thread_lock,
\* thread = _service_thread; return without a thread, else
\* _service_thread = NULL and the lock is released.
JoinTake(t) ==
  /\ jby = 0
  /\ jby' = t
  /\ jthread' = sthread
  /\ sthread' = 0
  /\ jpc' = IF sthread = 0 THEN "done" ELSE "exit"
  /\ UNCHANGED <<workers, wexit, wreopen>>
  /\ UNCHANGED <<svars, ovars, pvars, cvars, avars, ivars>>

\* thread->exit_thread(): under the worker's _lock, _exit_thread = true and
\* notify_all().
JoinExit ==
  /\ jpc = "exit"
  /\ workers[jthread] # "house"
  /\ wexit' = [wexit EXCEPT ![jthread] = TRUE]
  /\ jpc' = "join"
  /\ UNCHANGED <<sthread, workers, wreopen, jby, jthread>>
  /\ UNCHANGED <<svars, ovars, pvars, cvars, avars, ivars>>

\* thread->join(); delete thread; and the rest of the destructor, after
\* which the context is released.
JoinJoin ==
  /\ jpc = "join"
  /\ workers[jthread] = "exited"
  /\ workers' = [workers EXCEPT ![jthread] = "joined"]
  /\ jpc' = "done"
  /\ UNCHANGED <<sthread, wexit, wreopen, jby, jthread>>
  /\ UNCHANGED <<svars, ovars, pvars, cvars, avars, ivars>>

JNext ==
  \/ \E t \in Threads : StartCall(t)
  \/ \E t \in Threads : ReopenCall(t)
  \/ \E w \in WorkerIds : WorkerStep(w)
  \/ \E t \in Threads : JoinTake(t)
  \/ JoinExit
  \/ JoinJoin

(***************************************************************************)
(* The admin commands: CephContext::do_command, called by the admin socket  *)
(* through CephContextHook::call.  aconf is the value of every option of    *)
(* the configuration (a string is the sequence of its characters), aseen    *)
(* the values the observers were told of by the last apply_changes, aout    *)
(* what the command dumped to the formatter, afault a fatal fault and aret  *)
(* the result of CephContextHook::call.  alast records the last command.    *)
(***************************************************************************)
\* The command names the constructor registers with the admin hook.
Commands ==
  {"assert", "abort", "perfcounters_dump", "1", "perf dump", "perfcounters_schema",
   "perf histogram dump", "2", "perf schema", "perf histogram schema", "perf reset",
   "config show", "config help", "config set", "config unset", "config get",
   "config diff", "config diff get", "log flush", "log dump", "log reopen"}

\* The options of the configuration; 0 is a name that is no option.
Options == {1, 2}

Words == {<<"a">>}

\* The values of the val argument of a command: one word or more.
ValVectors == {<<w>> : w \in Words} \cup {<<w, x>> : w \in Words, x \in Words}

DefaultVal == <<>>

EINVAL == 22

ENOENT == 2

\* A join that puts nothing between the words.
RECURSIVE StrJoinNoSep(_, _)
StrJoinNoSep(v, sep) ==
  IF v = <<>> THEN <<>>
  ELSE IF Len(v) = 1 THEN v[1]
  ELSE v[1] \o StrJoinNoSep(Tail(v), sep)

\* str_join(val, " "): the words with the separator between them.
RECURSIVE StrJoin(_, _)
StrJoin(v, sep) ==
  IF v = <<>> THEN <<>>
  ELSE IF Len(v) = 1 THEN v[1]
  ELSE v[1] \o sep \o StrJoin(Tail(v), sep)

\* The options whose value differs from the default.
Differing(conf) == {o \in Options : conf[o] # DefaultVal}

\* _conf.diff(f, name): the difference from the defaults, of the option of
\* that name only; what an empty name selects is the dumper's choice
\* (all or nothing).
ConfDiff(conf, name, all_if_empty) ==
  IF name = 0 THEN (IF all_if_empty THEN Differing(conf) ELSE {})
  ELSE Differing(conf) \cap {name}

\* _conf.diff(f): the difference from the defaults, of all options.
ConfDiffAll(conf) == Differing(conf)

NoOut == [kind |-> "none", var |-> 0, text |-> <<>>, keys |-> {}]

NoCmd == [cmd |-> "none", var |-> 0, var_arg |-> "missing", val |-> <<>>,
          val_arg |-> "missing", r |-> 0, applied |-> FALSE]

AInit ==
  /\ aconf = [o \in Options |-> DefaultVal]
  /\ aseen = [o \in Options |-> DefaultVal]
  /\ aout = NoOut
  /\ alast = NoCmd
  /\ afault = "none"
  /\ aret = TRUE
  /\ debug_asok_assert_abort = FALSE

\* The configuration option debug_asok_assert_abort is changed.
SetDebugFlag(b) ==
  /\ afault = "none"
  /\ debug_asok_assert_abort # b
  /\ debug_asok_assert_abort' = b
  /\ UNCHANGED <<aconf, aseen, aout, alast, afault, aret>>
  /\ UNCHANGED <<svars, ovars, pvars, cvars, ivars, jvars>>

\* ceph_assert_always(!(command == "assert" && _conf->debug_asok_assert_abort))
FatalAssert(command, flag) ==
  command = "assert" /\ flag

\* if (command == "abort" && _conf->debug_asok_assert_abort) ceph_abort();
FatalAbort(command, flag) ==
  command = "abort" /\ flag

PerfCommands ==
  {"perfcounters_dump", "1", "perf dump", "perfcounters_schema", "2", "perf schema",
   "perf histogram dump", "perf histogram schema"}

\* The commands of the last else of do_command that have a branch.
SectionCommands ==
  {"config show", "config unset", "config set", "config get", "config help",
   "config diff", "config diff get", "log flush", "log dump", "log reopen"}

\* A config set that applies the changes whatever set_val answered.
SetOkAlways(r) ==
  TRUE

\* int r = _conf.set_val(...); if (r < 0) { error } else { apply_changes }
SetOk(r) ==
  ~(r < 0)

\* cmd_getval throws bad_cmd_get for an argument of another type, and
\* do_command ends there; the arguments are read in the order of the code.
Throws(command, var_arg, val_arg) ==
  \/ /\ command \in {"perf reset", "config unset", "config set", "config get",
                     "config help", "perf dump", "perf histogram dump",
                     "perfcounters_dump", "1"}
     /\ var_arg = "badtype"
  \/ /\ command = "config set"
     /\ var_arg = "ok"
     /\ val_arg = "badtype"

\* The setting that config diff get hands to _conf.diff: the local string,
\* which no cmd_getval fills.
DiffSetting(var, var_arg) ==
  0

\* What do_command dumps between open_object_section and close_section, and
\* what it does to the configuration, when it does not end in a fault.
Answer(command, var, var_arg, val, val_arg, r, all_if_empty) ==
  LET valstr == StrJoin(val, <<" ">>)
      syntax == [NoOut EXCEPT !.kind = "error"]
      same == [out |-> NoOut, conf |-> aconf, applied |-> FALSE]
  IN CASE command \in PerfCommands ->
            [same EXCEPT !.out = [NoOut EXCEPT !.kind = "dump"]]
       [] command = "perf reset" ->
            IF var_arg # "ok" THEN [same EXCEPT !.out = syntax]
            ELSE IF r # 0
              THEN [same EXCEPT !.out = [NoOut EXCEPT !.kind = "error", !.var = var]]
              ELSE [same EXCEPT !.out = [NoOut EXCEPT !.kind = "success", !.var = var]]
       [] command = "config show" ->
            [same EXCEPT !.out = [NoOut EXCEPT !.kind = "dump", !.keys = Options]]
       [] command = "config unset" ->
            IF var_arg # "ok" THEN [same EXCEPT !.out = syntax]
            ELSE IF r < 0 /\ r # -ENOENT
              THEN [same EXCEPT !.out = [NoOut EXCEPT !.kind = "error", !.var = var]]
              ELSE [out |-> [NoOut EXCEPT !.kind = "success"],
                    conf |-> IF r = 0 /\ var \in Options
                               THEN [aconf EXCEPT ![var] = DefaultVal] ELSE aconf,
                    applied |-> TRUE]
       [] command = "config set" ->
            IF var_arg # "ok" \/ val_arg # "ok" THEN [same EXCEPT !.out = syntax]
            ELSE IF ~SetOk(r)
              THEN [same EXCEPT !.out = [NoOut EXCEPT !.kind = "error", !.var = var,
                                                       !.text = valstr]]
              ELSE [out |-> [NoOut EXCEPT !.kind = "success"],
                    conf |-> IF r = 0 /\ var \in Options
                               THEN [aconf EXCEPT ![var] = valstr] ELSE aconf,
                    applied |-> TRUE]
       [] command = "config get" ->
            IF var_arg # "ok" THEN [same EXCEPT !.out = syntax]
            ELSE IF r < 0 \/ var \notin Options
              THEN [same EXCEPT !.out = [NoOut EXCEPT !.kind = "error", !.var = var]]
              ELSE [same EXCEPT !.out = [NoOut EXCEPT !.kind = "value", !.var = var,
                                                       !.text = aconf[var]]]
       [] command = "config help" ->
            IF var_arg = "ok"
              THEN IF var \notin Options
                     THEN [same EXCEPT !.out = [NoOut EXCEPT !.kind = "error", !.var = var]]
                     ELSE [same EXCEPT !.out = [NoOut EXCEPT !.kind = "option", !.var = var]]
              ELSE [same EXCEPT !.out = [NoOut EXCEPT !.kind = "option", !.keys = Options]]
       [] command = "config diff" ->
            [same EXCEPT !.out = [NoOut EXCEPT !.kind = "diff", !.keys = ConfDiffAll(aconf)]]
       [] command = "config diff get" ->
            [same EXCEPT !.out = [NoOut EXCEPT !.kind = "diff",
                                   !.keys = ConfDiff(aconf, DiffSetting(var, var_arg),
                                                     all_if_empty)]]
       [] OTHER -> same

\* CephContextHook::call(command, cmdmap, format, out): do_command, and false
\* when it throws bad_cmd_get.  var_arg and val_arg tell whether the cmdmap
\* holds the argument (and with the right type), r is what set_val, rm_val,
\* get_val or the reset of the perf counters answers (0, or a negated errno).
DoCommand(command, var, var_arg, val, val_arg, r, all_if_empty) ==
  /\ afault = "none"
  /\ alast' = [cmd |-> command, var |-> var, var_arg |-> var_arg, val |-> val,
               val_arg |-> val_arg, r |-> r,
               applied |-> /\ ~FatalAssert(command, debug_asok_assert_abort)
                           /\ ~FatalAbort(command, debug_asok_assert_abort)
                           /\ command \in PerfCommands \cup SectionCommands \cup {"perf reset"}
                           /\ ~Throws(command, var_arg, val_arg)
                           /\ Answer(command, var, var_arg, val, val_arg, r,
                                     all_if_empty).applied]
  /\ IF FatalAssert(command, debug_asok_assert_abort)
       THEN /\ afault' = "ceph_assert"
            /\ aret' = FALSE
            /\ UNCHANGED <<aconf, aseen, aout>>
     ELSE IF FatalAbort(command, debug_asok_assert_abort)
       THEN /\ afault' = "ceph_abort"
            /\ aret' = FALSE
            /\ UNCHANGED <<aconf, aseen, aout>>
     ELSE IF command \notin PerfCommands \cup SectionCommands \cup {"perf reset"}
       THEN \* ceph_abort_msg("registered under wrong command?")
            /\ afault' = "ceph_abort_msg"
            /\ aret' = FALSE
            /\ UNCHANGED <<aconf, aseen, aout>>
     ELSE IF Throws(command, var_arg, val_arg)
       THEN /\ aret' = FALSE
            /\ aout' = NoOut
            /\ UNCHANGED <<aconf, aseen, afault>>
     ELSE LET a == Answer(command, var, var_arg, val, val_arg, r, all_if_empty)
          IN /\ aout' = a.out
             /\ aconf' = a.conf
             /\ aseen' = IF a.applied THEN a.conf ELSE aseen
             /\ aret' = TRUE
             /\ UNCHANGED afault
  /\ UNCHANGED debug_asok_assert_abort
  /\ UNCHANGED <<svars, ovars, pvars, cvars, ivars, jvars>>

\* The commands that read the argument var, and those that call the
\* configuration or the perf counters with it.
VarCommands ==
  {"perf reset", "config unset", "config set", "config get", "config help",
   "config diff get"}

ResultCommands == {"perf reset", "config unset", "config set", "config get"}

\* A command arrives at the admin socket.  An argument that is missing has
\* no value, a name that is no option is refused with ENOENT, and what a
\* command does not use is left out.
AdminCall ==
  \E command \in Commands :
    \E var_arg \in IF command \in VarCommands THEN {"ok", "missing", "badtype"}
                                               ELSE {"missing", "badtype"} :
      \E var \in IF var_arg = "ok" THEN Options \cup {0} ELSE {0} :
        \E val \in IF command = "config set" THEN ValVectors \cup {<<>>} ELSE {<<>>} :
          \E val_arg \in IF val # <<>> THEN {"ok"}
                         ELSE IF command = "config set" THEN {"missing", "badtype"}
                         ELSE {"missing"} :
            \E r \in IF \/ command \notin ResultCommands
                        \/ var_arg # "ok"
                        \/ (command = "config set" /\ val_arg # "ok") THEN {0}
                     ELSE IF var = 0 THEN {-ENOENT}
                     ELSE {0, -EINVAL, -ENOENT} :
              \E all_if_empty \in IF command = "config diff get" THEN BOOLEAN
                                                                 ELSE {FALSE} :
                DoCommand(command, var, var_arg, val, val_arg, r, all_if_empty)

ANext ==
  \/ \E b \in BOOLEAN : SetDebugFlag(b)
  \/ AdminCall

Init == SInit /\ OInit /\ PInit /\ CInit /\ AInit /\ IInit /\ JInit

SpecSingleton == Init /\ [][SNext]_vars

SpecFork == Init /\ [][FNext]_vars

SpecForkThreads == Init /\ [][FTNext]_vars

SpecObservers == Init /\ [][ONext]_vars

SpecObserversThreads == Init /\ [][ONextThreads]_vars

SpecPidCoop == Init /\ [][PNextCoop]_vars

SpecPid == Init /\ [][PNext]_vars

SpecContext == Init /\ [][CNext]_vars

SpecAdmin == Init /\ [][ANext]_vars

SpecInit == Init /\ [][INext]_vars

SpecService == Init /\ [][JNext]_vars

SpecContextFair == Init /\ [][CNext]_vars /\ CFair

(***************************************************************************)
(* Properties of the singleton registry.                                   *)
(***************************************************************************)
SlotsOf(n, T) == {s \in associated_objs : s.name = n /\ s.type = T}

\* C1: between two notify_pre_fork calls every lookup of one (name, type)
\* returns the same instance, the value of a slot is constructed exactly once,
\* and the registry holds at most one slot for the pair.
C1_SingleInstancePerKey ==
  \A k \in Keys :
    /\ Cardinality(SlotsOf(k[1], k[2])) <= 1
    /\ built[k] <= 1
    /\ Cardinality(returned[k]) <= 1
    /\ returned[k] # {} =>
         /\ built[k] = 1
         /\ \E s \in SlotsOf(k[1], k[2]) : returned[k] = {s.inst}

\* A second lookup has found the slot whose instance an earlier lookup of the
\* same key returned.
C1_Witness ==
  \E t \in Threads :
    /\ spc[t] = "ret"
    /\ siter[t].inst \in returned[<<sarg[t].name, sarg[t].type>>]

\* C2: the absence check and the insertion are one critical section: at most
\* one thread is between lock and unlock, the slot found absent is still absent
\* when it is inserted, a thread about to return holds a slot that is in the
\* map, and no key is constructed twice.
C2_CompareAndCreate ==
  /\ Cardinality({t \in Threads : spc[t] \in {"find", "emplace", "ret"}}) <= 1
  /\ \A t \in Threads :
       /\ spc[t] = "emplace" => SlotsOf(sarg[t].name, sarg[t].type) = {}
       /\ spc[t] = "ret" => siter[t] \in associated_objs
  /\ \A k \in Keys : built[k] <= 1

\* One thread is creating a slot while another, asking for the same key, waits
\* for the lock.
C2_Witness ==
  \E t, u \in Threads :
    /\ t # u
    /\ spc[t] = "emplace"
    /\ spc[u] = "lock"
    /\ sarg[t].name = sarg[u].name
    /\ sarg[t].type = sarg[u].type

\* C3 as claimed: a lookup that returns while the name has a slot of another
\* type ends in a fault.
C3_TypeConfusionIsFatal ==
  [][\A t \in Threads :
       (/\ spc[t] = "ret"
        /\ spc'[t] = "idle"
        /\ \E s \in associated_objs : s.name = sarg[t].name /\ s.type # sarg[t].type)
       => sfault' # "none"]_vars

\* C3 as amended: slots are keyed by (name, type), so a request for another
\* type under a used name is no fault: it finds or creates a slot of its own,
\* whose instance differs from the other type's, and every slot holds a value
\* of its key's type.
C3_TypesAreSeparateSlots ==
  /\ sfault = "none"
  /\ \A s \in associated_objs : s.held = s.type
  /\ \A s1, s2 \in associated_objs :
       (s1.name = s2.name /\ s1.type # s2.type) => s1.inst # s2.inst
  /\ \A k \in Keys : \A i \in returned[k] : \E s \in SlotsOf(k[1], k[2]) : s.inst = i

\* Lookups of one name under two types have both returned.
C3_Witness ==
  \E n \in Names, T, U \in Types :
    /\ T # U
    /\ returned[<<n, T>>] # {}
    /\ returned[<<n, U>>] # {}

\* C4: a slot created with drop_on_fork = true is gone after notify_pre_fork,
\* and a lookup after the fork never returns the instance the fork dropped.
C4_DropOnForkRecreates ==
  \A s \in forkSnap :
    /\ \A r \in associated_objs : r.inst # s.inst
    /\ s.inst \notin returned[<<s.name, s.type>>]

\* A key dropped by a fork has been looked up again after the fork.
C4_Witness ==
  \E s \in forkSnap : returned[<<s.name, s.type>>] # {}

(***************************************************************************)
(* Properties of the observer registry.                                    *)
(***************************************************************************)
\* C5: with every observer registered at most once, a notification calls an
\* observer exactly once for each changed key it tracks, and never for
\* another key or for an observer that is not registered.
C5_OncePerTrackedChangedKey ==
  (olast.op = "notify" /\ \A o \in Obs : regs[o] <= 1) =>
    \A o \in Obs, k \in ConfKeys :
      Count(calls, <<o, k>>) =
        IF regs[o] = 1 /\ k \in olast.ch /\ k \in Range(TrackedKeys(o)) THEN 1 ELSE 0

\* Observer 1, registered once for the keys 1 and 2, has been notified of a
\* change of key 1 alone and was called once, for key 1.
C5_Witness ==
  /\ olast.op = "notify"
  /\ olast.ch = {1}
  /\ regs = [o \in Obs |-> IF o = 1 THEN 1 ELSE 0]
  /\ calls = <<<<1, 1>>>>

\* C6: remove_observer of an observer that was never added, or was removed
\* since it was added, fails the assertion.
C6_RemoveUnregisteredAsserts ==
  (olast.op = "remove" /\ ~olast.had) => ofault = "ceph_assert"

\* An observer with no registration has been removed and the assertion failed.
C6_Witness ==
  /\ olast.op = "remove"
  /\ ~olast.had
  /\ ofault = "ceph_assert"

(***************************************************************************)
(* The pid file                                                            *)
(***************************************************************************)

\* The process holds the pid file: its handle is open and the kernel records
\* the process as the owner of the lock of the file its descriptor refers to.
Locked(p) ==
  /\ pfh[p]
  /\ is_open(pf[p])
  /\ kfd[p] # 0
  /\ lockOwner[kfd[p]] = p

\* C7: at most one process holds the pid file of the path at any time: no
\* two processes that use pidfile_write and pidfile_remove on the same path
\* are in the Locked state together.
C7_AtMostOneLocked ==
  \A p, q \in Procs : p # q => ~(Locked(p) /\ Locked(q))

\* C8: when pidfh::remove returns, whatever its outcome, the descriptor is
\* closed and the handle is Empty.
C8_ReleaseAlwaysEmpties ==
  \A p \in Procs :
    ppc[p] = "rm_ret" => pf[p] = ResetHandle /\ kfd[p] = 0

\* C9: pidfh::remove unlinks the path only when the device/inode check and
\* the stored-pid check both passed in that call; a stored pid that is not
\* the process's own, the empty text of a file never written included, gives
\* -EDOM, and no failing outcome has unlinked the path.
C9_UnlinkOnlyAfterBothChecks ==
  \A p \in Procs :
    ppc[p] = "rm_ret" =>
      /\ pchk[p].unlinked => pchk[p].verified /\ pchk[p].pidok /\ pret[p] = "OK"
      /\ pchk[p].mismatch => pret[p] = "EDOM" /\ ~pchk[p].unlinked
      /\ pret[p] # "OK" => ~pchk[p].unlinked

\* A remove() that found another pid in the file has returned -EDOM and the
\* path is still there.
C9_Witness ==
  \E p \in Procs :
    /\ ppc[p] = "rm_ret"
    /\ pchk[p].mismatch
    /\ pret[p] = "EDOM"
    /\ pathIno # 0

\* C10 as stated: after acquire and write, verify() succeeds while the path
\* names the locked file, and reports -ESTALE once the path names a file of
\* another device/inode or the descriptor has been closed.
C10_StaleWhenReplacedOrClosed ==
  \A p \in Procs :
    pfh[p] /\ pchk[p].written =>
      /\ kfd[p] # 0 /\ pathIno = kfd[p] => Verify(pf[p], pathIno) = "OK"
      /\ kfd[p] # 0 /\ pathIno \notin {0, kfd[p]} => Verify(pf[p], pathIno) = "ESTALE"
      /\ kfd[p] = 0 => Verify(pf[p], pathIno) = "ESTALE"

\* C10: after acquire and write, verify() succeeds while the path names the
\* locked file and reports -ESTALE while the path names a file of another
\* device/inode; it reports -ENOENT while the path names nothing, -EINVAL
\* once the handle is reset, and it does not notice a descriptor that was
\* closed without a reset of the handle.
C10_StaleWhenReplaced ==
  \A p \in Procs :
    pfh[p] /\ pchk[p].written =>
      /\ kfd[p] # 0 /\ pathIno = kfd[p] => Verify(pf[p], pathIno) = "OK"
      /\ kfd[p] # 0 /\ pathIno \notin {0, kfd[p]} => Verify(pf[p], pathIno) = "ESTALE"
      /\ pf[p].fd # -1 /\ pathIno = 0 => Verify(pf[p], pathIno) = "ENOENT"
      /\ pf[p].fd = -1 => Verify(pf[p], pathIno) = "EINVAL"
      /\ kfd[p] = 0 /\ pf[p].fd # -1 /\ pathIno = pf[p].ino => Verify(pf[p], pathIno) = "OK"

\* The file of a written pid file was replaced by another one and the
\* verify() of remove() has returned -ESTALE.
C10_Witness ==
  \E p \in Procs :
    /\ pchk[p].written
    /\ ppc[p] = "rm_vclose"
    /\ pret[p] = "ESTALE"
    /\ pathIno \notin {0, kfd[p]}

\* C11: pidfh::open on a file another process has locked does not wait: the
\* F_SETLK step returns -EAGAIN with the descriptor closed and the handle
\* reset, and neither that step nor the cleanup of pidfile_write that follows
\* changes the path, the text or the lock of the holder's file.
C11_LockHeldLeavesHolderAlone ==
  [][\A p \in Procs :
       /\ (ppc[p] = "setlk" /\ ppc'[p] # "setlk" /\ lockOwner[kfd[p]] \notin {0, p}) =>
            /\ pr'[p] = "EAGAIN"
            /\ ppc'[p] = "rm_ret"
            /\ pf'[p] = ResetHandle
            /\ kfd'[p] = 0
            /\ pathIno' = pathIno /\ content' = content /\ lockOwner' = lockOwner
       /\ (ppc[p] = "rm_ret" /\ pr[p] = "EAGAIN" /\ ppc'[p] # "rm_ret") =>
            /\ ppc'[p] = "out"
            /\ ~pfh'[p]
            /\ kfd'[p] = 0
            /\ ~pchk[p].unlinked
            /\ pathIno' = pathIno /\ content' = content /\ lockOwner' = lockOwner]_vars

\* A process was refused the lock and is back from the cleanup while the
\* holder still holds the file with its own pid in it.
C11_Witness ==
  \E p, q \in Procs :
    /\ p # q
    /\ ppc[p] = "rm_ret"
    /\ pr[p] = "EAGAIN"
    /\ pf[p] = ResetHandle
    /\ Locked(q)
    /\ content[kfd[q]] = q

(***************************************************************************)
(* The context                                                             *)
(***************************************************************************)

\* The thread is inside delete this.
InDtor(t) ==
  cpc[t] \in {"d_clear", "d_join", "d_exit", "d_wait", "d_tear"}

\* C12: the context is destroyed at most once, by the thread whose put()
\* brought nref to zero, and never while a reference is held: the destructor
\* runs in one thread only, with nref zero and no thread holding a reference,
\* and not again once it has run.
C12_DestroyedOnceAtZero ==
  /\ deleted <= 1
  /\ Cardinality({t \in Threads : InDtor(t)}) + deleted <= 1
  /\ (deleted = 1 \/ \E t \in Threads : InDtor(t)) =>
       /\ nref = 0
       /\ \A t \in Threads : rheld[t] = 0

\* The last put() has destroyed the context, whose service thread had been
\* started and was joined by the destructor.
C12_Witness ==
  /\ deleted = 1
  /\ nref = 0
  /\ Len(torn) = Len(DtorOrder)
  /\ torn[Len(torn)] = "crypto"
  /\ safe_to_start_threads
  /\ wpc = "joined"

\* C13: join_service_thread returns only after the service thread has left
\* entry(), and it always returns in the end, wherever in its loop the thread
\* is when _exit_thread is set; without a service thread it changes nothing.
C13_JoinWaitsAndReturns ==
  /\ [](\A t \in Threads : cpc[t] = "d_tear" => wpc \in {"none", "joined"})
  /\ \A t \in Threads : (cpc[t] = "d_join") ~> (cpc[t] = "d_tear")
  /\ [][\A t \in Threads :
          (cpc[t] = "d_join" /\ cpc'[t] # "d_join" /\ ~service_thread) =>
            /\ cpc'[t] = "d_tear"
            /\ UNCHANGED <<service_thread, wpc, wlock, wnotified, reopen_logs,
                           exit_thread>>]_vars

\* join_service_thread has returned after it set _exit_thread and the service
\* thread left its loop.
C13_Witness ==
  \E t \in Threads :
    /\ cpc[t] = "d_tear"
    /\ torn = <<>>
    /\ exit_thread
    /\ wpc = "joined"

\* C14: with heartbeat_interval 0 and the service thread running, every
\* reopen_logs() is followed, with no further signal, by the service thread
\* reopening the log file and clearing _reopen_logs, wherever in its loop the
\* thread is when the request is made.
C14_ReopenRequestServed ==
  (heartbeat_interval = 0 /\ reopen_logs) ~> (~reopen_logs \/ exit_thread)

\* C15: start_service_thread with a service thread already running creates no
\* second one: however many calls are made, at most one thread is created,
\* and the one that runs is that one.
C15_StartIsIdempotent ==
  /\ created <= 1
  /\ service_thread => created = 1 /\ wpc \notin {"none", "joined"}

\* The service thread runs, created once, and the thread that started it is
\* back and may call start_service_thread again.
C15_Witness ==
  /\ created = 1
  /\ service_thread
  /\ safe_to_start_threads
  /\ wpc = "wait"
  /\ \A t \in Threads : cpc[t] = "idle" /\ rheld[t] > 0

\* C16: with heartbeat_interval above zero and no signal, the running service
\* thread keeps waking by the timeout of wait_for and calls check_touch_file
\* after every such wake: from any point of its loop a touch follows, again
\* and again, until _exit_thread is set.
C16_TouchesAgainAndAgain ==
  [](heartbeat_interval > 0 /\ wpc \in {"top", "wait", "reopen", "touch"} =>
       <>(wpc = "touch" \/ exit_thread))

\* With a period above zero the service thread is about to touch the liveness
\* file, with no reopen requested and no stop requested.
C16_Witness ==
  /\ heartbeat_interval > 0
  /\ wpc = "touch"
  /\ wlock
  /\ ~reopen_logs
  /\ ~exit_thread

(***************************************************************************)
(* The fork watchers                                                       *)
(***************************************************************************)

Pos(q, c) ==
  CHOOSE i \in 1..Len(q) : q[i] = c

\* Component a was torn down before component b, as far as the teardown got.
TornBefore(a, b) ==
  b \in Range(torn) => a \in Range(torn) /\ Pos(torn, a) < Pos(torn, b)

\* C19: in the destructor the service thread is stopped and joined before the
\* log is stopped and deleted: once the teardown of the components has begun,
\* the log included, the service thread has left entry() and takes no step.
C19_JoinedBeforeLogTeardown ==
  ((\E t \in Threads : cpc[t] = "d_tear") \/ torn # <<>>) =>
    /\ wpc \in {"none", "joined"}
    /\ ~wlock

\* The log has been torn down after a service thread that ran was joined.
C19_Witness ==
  /\ "log" \in Range(torn)
  /\ created = 1
  /\ wpc = "joined"

\* The components the order of teardown is stated for.  The two config
\* observers count as one step of the construction.
OrderedComponents ==
  {"log", "log_obs", "cct_obs", "admin_socket", "heartbeat_map", "plugin_registry",
   "admin_hook"}

CtorRank(c) ==
  IF c = "cct_obs" THEN Pos(CtorOrder, "log_obs") ELSE Pos(CtorOrder, c)

\* C20 as stated: the destructor tears the components down in the reverse of
\* the order of their construction: of any two of them, the one constructed
\* later is torn down first.
C20_ReverseOfConstruction ==
  \A a, b \in OrderedComponents :
    CtorRank(a) < CtorRank(b) => TornBefore(b, a)

\* C20: the destructor tears down the plugin registry, the admin hook, the
\* admin socket, the heartbeat map, the config observers and the log in this
\* order.  The log, constructed first, goes last, after the observers, and
\* the hook's commands go before the admin socket; but the plugin registry
\* goes before the hook and the admin socket before the heartbeat map, each
\* before a component constructed after it.
C20_TeardownOrder ==
  /\ TornBefore("plugin_registry", "admin_hook")
  /\ TornBefore("admin_hook", "admin_socket")
  /\ TornBefore("admin_socket", "heartbeat_map")
  /\ TornBefore("heartbeat_map", "log_obs")
  /\ TornBefore("log_obs", "cct_obs")
  /\ TornBefore("cct_obs", "log")
  /\ \A c \in OrderedComponents \ {"log"} : TornBefore(c, "log")

\* The destructor has torn down every component.
C20_Witness ==
  /\ deleted = 1
  /\ OrderedComponents \subseteq Range(torn)

Constructing == {t \in Threads : spc[t] \in {"find", "emplace", "ret"}}

\* C22 as stated: construction is serialized per (name, type) key only: a
\* first-time request waiting for the lock is kept out only by a thread
\* that works on the same key, never by one that works on a different key.
C22_BlockedOnlyBySameKey ==
  \A t \in Threads, u \in Constructing :
    (spc[t] = "lock" /\ built[<<sarg[t].name, sarg[t].type>>] = 0) =>
      (sarg[u].name = sarg[t].name /\ sarg[u].type = sarg[t].type)

\* C22 as amended: construction is serialized for the whole registry: at
\* most one thread is between the lock and the return, whatever the keys,
\* and the lock is held by that thread.
C22_OneConstructionAtATime ==
  /\ Cardinality(Constructing) <= 1
  /\ \A t \in Constructing : associated_objs_lock = t

\* Thread 1 constructs the first value of key (1, 1) while thread 2 waits at
\* the lock with a first-time request for the different key (2, 1).
C22_Witness ==
  /\ spc[1] = "emplace"
  /\ sarg[1].name = 1 /\ sarg[1].type = 1
  /\ spc[2] = "lock"
  /\ sarg[2].name = 2 /\ sarg[2].type = 1
  /\ built[<<1, 1>>] = 0 /\ built[<<2, 1>>] = 0

(***************************************************************************)
(* The diagnostic sink of a notification                                   *)
(***************************************************************************)
\* The lines of the sink that are about the key k.
LinesOf(k) == {i \in 1..Len(diag) : diag[i].key = k}

\* C23 as stated: with a sink, every changed key gets its value written to
\* the sink, and with it the restart diagnostic when it has no observer,
\* whatever the result of reading the value.
C23_EveryChangedKeyWritten ==
  (olast.op = "notify" /\ olast.oss) =>
    \A k \in olast.ch :
      /\ Cardinality(LinesOf(k)) = 1
      /\ \A i \in LinesOf(k) : diag[i].unobserved = (EqualRange(observers, k) = <<>>)

\* C23 as amended: with a sink, every changed key whose value could be read
\* gets one line, with the restart diagnostic exactly when the key has no
\* observer; a changed key whose value could not be read gets no line at
\* all, and no other key gets one.
C23_ReadableChangedKeysWritten ==
  (olast.op = "notify" /\ olast.oss) =>
    /\ \A k \in olast.ch \ olast.bad :
         /\ Cardinality(LinesOf(k)) = 1
         /\ \A i \in LinesOf(k) : diag[i].unobserved = (EqualRange(observers, k) = <<>>)
    /\ \A k \in ConfKeys \ (olast.ch \ olast.bad) : LinesOf(k) = {}

\* A notification with a sink of a change of the keys 1 and 3, neither with
\* an observer, where the value of key 1 could not be read: the sink holds
\* the line of key 3 with the restart diagnostic, and nothing about key 1.
C23_Witness ==
  /\ olast.op = "notify"
  /\ olast.oss
  /\ olast.ch = {1, 3}
  /\ olast.bad = {1}
  /\ observers = <<>>
  /\ diag = <<[key |-> 3, unobserved |-> TRUE]>>

(***************************************************************************)
(* Registering an observer again                                           *)
(***************************************************************************)
\* C24 as stated: add_observer is idempotent: an observer that is registered,
\* however many times it was added, is called by a notification once for
\* each changed key it tracks.
C24_RegisterIdempotent ==
  olast.op = "notify" =>
    \A o \in Obs, k \in ConfKeys :
      (regs[o] >= 1 /\ k \in olast.ch /\ k \in Range(TrackedKeys(o))) =>
        Count(calls, <<o, k>>) = 1

\* C24 as amended: add_observer is not idempotent: an observer added n times
\* since it was last removed is called by a notification n times for each
\* changed key it tracks, and not at all for any other key.
C24_CalledOncePerRegistration ==
  olast.op = "notify" =>
    \A o \in Obs, k \in ConfKeys :
      Count(calls, <<o, k>>) =
        IF k \in olast.ch /\ k \in Range(TrackedKeys(o)) THEN regs[o] ELSE 0

\* Observer 1, added twice, has been notified of a change of key 1 and was
\* called twice for it.
C24_Witness ==
  /\ olast.op = "notify"
  /\ olast.ch = {1}
  /\ regs[1] = 2
  /\ calls = <<<<1, 1>>, <<1, 1>>>>

(***************************************************************************)
(* The admin commands                                                      *)
(***************************************************************************)
\* A step of do_command for the command, with the arguments it needs.
SetStep ==
  /\ debug_asok_assert_abort' = debug_asok_assert_abort
  /\ alast'.cmd = "config set"
  /\ alast'.var_arg = "ok"
  /\ alast'.val_arg = "ok"

\* The words of a val argument with one space between them.
SpaceJoined(v) ==
  CASE Len(v) = 1 -> v[1]
    [] Len(v) = 2 -> v[1] \o <<" ">> \o v[2]

\* C25: config set <var> <val...> sets the option to the values joined with
\* a single space; when set_val succeeds it applies the changes and answers
\* success, and when set_val fails it answers error, leaves the
\* configuration and what the observers were told alone, and the command
\* dispatch does not fail (the hook returns true, without a fault).
C25_ConfigSetAppliesOnlyOnSuccess ==
  [][SetStep =>
       IF alast'.r < 0
         THEN /\ aout'.kind = "error"
              /\ ~alast'.applied
              /\ aconf' = aconf
              /\ aseen' = aseen
              /\ aret'
              /\ afault' = "none"
         ELSE /\ aout'.kind = "success"
              /\ alast'.applied
              /\ aconf' = [aconf EXCEPT ![alast'.var] = SpaceJoined(alast'.val)]
              /\ aseen' = aconf'
              /\ aret'
              /\ afault' = "none"]_vars

\* Option 1 was set to the two words "a" and "a", which made it "a a", and
\* then a config set of option 2 failed with EINVAL and was answered with
\* an error: option 2 still has its default.
C25_Witness ==
  /\ alast.cmd = "config set"
  /\ alast.var = 2
  /\ alast.var_arg = "ok" /\ alast.val_arg = "ok"
  /\ alast.r = -EINVAL
  /\ aout.kind = "error"
  /\ aret
  /\ aconf[1] = <<"a", " ", "a">>
  /\ aseen[1] = <<"a", " ", "a">>
  /\ aconf[2] = DefaultVal

\* C26: the assert command is a fatal fault unless the debug flag
\* debug_asok_assert_abort disables it: do_command of "assert" ends in a
\* fault when the flag is set, and answers without a fault when it is not.
C26_AssertFatalUnlessDisabled ==
  [][(alast'.cmd = "assert" /\ debug_asok_assert_abort' = debug_asok_assert_abort
        /\ afault = "none") =>
       (afault' # "none" <=> debug_asok_assert_abort)]_vars

\* C27: config diff get <var> dumps the difference from the defaults of the
\* option its var argument names, and of no other option, while config diff
\* dumps the difference of all options.
C27_DiffGetDumpsNamedOption ==
  /\ (alast.cmd = "config diff get" /\ alast.var_arg = "ok") =>
       (aout.kind = "diff" /\ aout.keys = Differing(aconf) \cap {alast.var})
  /\ alast.cmd = "config diff" =>
       (aout.kind = "diff" /\ aout.keys = Differing(aconf))

(***************************************************************************)
(* common_init_finish                                                      *)
(***************************************************************************)
\* C28: common_init_finish can be called several times, one call after the
\* other: once a call has been made, crypto is initialized once and the log
\* is started once, and from then on no step initializes crypto, starts the
\* log or goes on to start the service thread again; no more than one
\* service thread is ever created.
C28_InitFinishOnce ==
  /\ [](ilast.called => (finished /\ crypto_inits = 1 /\ log_starts = 1))
  /\ [](created <= 1)
  /\ [][finished =>
          /\ finished'
          /\ crypto_inits' = crypto_inits
          /\ log_starts' = log_starts
          /\ log_started' = log_started
          /\ \A t \in Threads : cpc'[t] = "init_start" => cpc[t] = "init_start"]_vars

\* A second call of common_init_finish has found the context finished, with
\* the service thread of the first call running: crypto was initialized once
\* and one thread was created.
C28_Witness ==
  /\ ilast.called
  /\ ilast.was_finished
  /\ crypto_inits = 1
  /\ log_starts = 1
  /\ created = 1
  /\ service_thread
  /\ init_by = 0

(***************************************************************************)
(* The states of the pid-file handle                                       *)
(***************************************************************************)
\* The handle of the process exists and none of its methods is running:
\* pidfile_write has returned, or remove() has.
HandleAtRest(p) ==
  pfh[p] /\ ppc[p] \in {"out", "rm_ret"}

\* The handle is Empty: no path, no descriptor.
EmptyHandle(p) ==
  pf[p] = ResetHandle /\ kfd[p] = 0

\* C29: whenever no operation on it is in progress, a pid-file handle is
\* Empty (no path, no descriptor) or Locked (path set, descriptor open, lock
\* held): no acquire that fails and no release that fails leaves it in
\* another state.
C29_EmptyOrLocked ==
  \A p \in Procs : HandleAtRest(p) => (EmptyHandle(p) \/ Locked(p))

(***************************************************************************)
(* The lock of the fork watchers                                           *)
(***************************************************************************)
\* The threads inside a critical section on the watcher list.
InWatcherSection == {t \in Threads : fpc[t] # "idle"}

\* C30: the fork-watcher lock is released only by the thread that took it,
\* at the end of its critical section, so a thread inside a critical section
\* on the watcher list holds the lock and no second thread is inside one.
C30_ScopedWatcherLock ==
  /\ [](Cardinality(InWatcherSection) <= 1)
  /\ [](\A t \in InWatcherSection : fork_watchers_lock = t)
  /\ [][\A t \in Threads :
          (fork_watchers_lock = t /\ fork_watchers_lock' # t) =>
            (fpc[t] # "idle" /\ fpc'[t] = "idle")]_vars

(***************************************************************************)
(* C31: on every wake of the worker loop (by timeout, by signal or         *)
(* spuriously) with the exit flag not set, the worker performs the         *)
(* liveness touch and the gauge refresh; it reopens the log file in that   *)
(* cycle exactly when the reopen flag was set at the wake, and the flag is *)
(* clear when the cycle ends.  The worker leaves its wait without the exit *)
(* flag only for the housekeeping, with the reopen first exactly when the  *)
(* flag is set; the reopen is followed by the touch and the refresh, which *)
(* end the cycle; and at the end of the cycle the flag is clear.           *)
(***************************************************************************)
C31_WakeDoesHousekeeping ==
  [][/\ (wpc = "wait" /\ wpc' # "wait" /\ ~exit_thread)
          => /\ wpc' = (IF reopen_logs THEN "reopen" ELSE "touch")
             /\ wlock'
     /\ (wpc = "reopen" /\ wpc' # "reopen")
          => (wpc' = "touch" /\ ~reopen_logs' /\ wlock')
     /\ (wpc = "touch" /\ wpc' # "touch")
          => (wpc' = "top" /\ ~reopen_logs' /\ ~wlock')
     /\ (wpc \in {"reopen", "touch"} /\ wpc' = wpc)
          => (reopen_logs' = reopen_logs /\ exit_thread' = exit_thread)]_vars

\* The worker woke with the reopen flag set and no exit flag, and is about
\* to reopen the log file.
C31_Witness ==
  /\ wpc = "reopen"
  /\ reopen_logs
  /\ ~exit_thread
  /\ wlock

(***************************************************************************)
(* C32: a finishing holder never removes another holder's pid file.  With  *)
(* the processes alone acting on the path, for every interleaving of one   *)
(* process's release with another's acquire and write_self_pid, a process  *)
(* that has acquired the lock and written its pid still finds the path on  *)
(* disk naming its own locked file.                                        *)
(***************************************************************************)
C32_HolderKeepsItsPath ==
  \A p \in Procs :
    (Locked(p) /\ ppc[p] = "out" /\ content[kfd[p]] = p)
      => pathIno = kfd[p]

(***************************************************************************)
(* C33: at most one service worker thread of a context is alive at any     *)
(* time, for every interleaving of start_service_thread and                *)
(* join_service_thread called from different threads, a start that arrives *)
(* while a join is still waiting for the old worker to exit included.      *)
(***************************************************************************)
C33_AtMostOneWorkerAlive ==
  \A v, w \in WorkerIds : (Alive(v) /\ Alive(w)) => v = w

(***************************************************************************)
(* C34: notify_pre_fork leaves in place every singleton slot that was      *)
(* created with drop_on_fork = false, whatever other slots (the same name  *)
(* with another type, or other names) the registry holds: no step of the   *)
(* registry removes such a slot, so a lookup after the fork finds the      *)
(* instance it found before.                                               *)
(***************************************************************************)
C34_PreForkKeepsOtherSlots ==
  [][\A s \in associated_objs : ~s.dof => s \in associated_objs']_vars

(***************************************************************************)
(* C35: an observer added with add_observer can always be removed once     *)
(* with remove_observer without a fault, whatever its tracked-key list is, *)
(* an empty list included: the removal of an observer that was added and   *)
(* not removed since leaves no fault.                                      *)
(***************************************************************************)
C35_AddedObserverCanBeRemoved ==
  (olast.op = "remove" /\ olast.had) => ofault = "none"

(***************************************************************************)
(* C36: every command name the constructor registers with the admin hook   *)
(* is handled by do_command: with the debug flag debug_asok_assert_abort   *)
(* off, do_command of a registered command ends without a fault, and the   *)
(* abort "registered under wrong command?" is never reached.               *)
(***************************************************************************)
C36_RegisteredCommandsHandled ==
  [][(afault = "none" /\ ~debug_asok_assert_abort /\ alast'.cmd \in Commands)
       => afault' = "none"]_vars

(***************************************************************************)
(* C37: once stop has set the exit flag, the worker performs no further    *)
(* log reopen, liveness touch or gauge refresh.  The exit flag is set only *)
(* while the worker is outside its housekeeping; with the flag set the     *)
(* worker is never in the housekeeping, since the test of the flag comes   *)
(* before it on every wake; and a reopen request pending when the flag is  *)
(* set is never served: it stays pending.                                  *)
(***************************************************************************)
C37_NoHousekeepingAfterExit ==
  /\ [](exit_thread => wpc \notin {"reopen", "touch"})
  /\ [][(~exit_thread /\ exit_thread') => (wpc \in {"top", "wait"} /\ ~wlock)]_vars
  /\ [][(exit_thread /\ reopen_logs) => (exit_thread' /\ reopen_logs')]_vars

\* The worker was told to exit with a reopen request pending, has left its
\* loop and has been joined, and the request is still pending.
C37_Witness ==
  /\ exit_thread
  /\ reopen_logs
  /\ wpc = "joined"

(***************************************************************************)
(* C38: the drop-on-fork marking is fixed by the call that creates a slot. *)
(* A lookup_or_create_singleton_object that finds its (name, type) slot    *)
(* changes neither the map nor the drop-set, whatever its drop_on_fork     *)
(* argument is, from the find to its return; so the drop-set holds exactly *)
(* the names of the slots that were created with drop_on_fork = true, and  *)
(* a slot created with drop_on_fork = false is not made droppable by a     *)
(* later lookup of that slot with drop_on_fork = true.                     *)
(***************************************************************************)
C38_MarkingFixedAtCreation ==
  /\ [](associated_objs_drop_on_fork = {s.name : s \in {r \in associated_objs : r.dof}})
  /\ [][\A t \in Threads :
          (\/ spc[t] = "find" /\ SlotsOf(sarg[t].name, sarg[t].type) # {}
           \/ spc[t] = "ret")
            => /\ associated_objs' = associated_objs
               /\ associated_objs_drop_on_fork' = associated_objs_drop_on_fork]_vars

\* A lookup with drop_on_fork = true has found a slot that was created with
\* drop_on_fork = false, and the name of the slot is not in the drop-set.
C38_Witness ==
  \E t \in Threads :
    /\ spc[t] = "ret"
    /\ sarg[t].drop
    /\ ~siter[t].dof
    /\ siter[t] \in associated_objs
    /\ sarg[t].name \notin associated_objs_drop_on_fork

====
